---- MODULE Spec2Model ----
(***************************************************************************)
(* Verification model of the deforestation detection core:                 *)
(*   - UnionFind, SpatialChangeDetector (backend/dsa_algorithms.py)        *)
(*   - LocalImageProcessor (backend/image_processor.py)                    *)
(***************************************************************************)
EXTENDS Integers, Sequences, FiniteSets, TLC

VARIABLES
    parent,     \* UnionFind.parent : 0..n-1 -> 0..n-1
    rank,       \* UnionFind.rank
    size,       \* UnionFind.size
    unioned,    \* history: the pairs <<a, b>> passed to union so far
    ufCalls,    \* number of union/find/get_size calls made so far
    ufRet,      \* the last call: [op, x, ret]
    cc,         \* one call of SpatialChangeDetector.cluster_changes:
                \*   pc, change_pixels, n, min_cluster_size, neighbor_distance,
                \*   uf, neighbors_list, i, components, clusters
    ip,         \* one call of LocalImageProcessor.detect_forest_loss: pc and
                \* the local arrays of the stages run so far
    vp,         \* one call of LocalImageProcessor.vectorize_professional: pc,
                \* the arguments, contours, the loop index i and polygons
    sd,         \* one call of SpatialChangeDetector.match_temporal_changes,
                \* calculate_change_confidence or filter_false_positives: pc,
                \* the arguments, the locals and the returned value
    gp,         \* one call of GEEPipeline._detect_local_smooth: pc, the arrays
                \* fetch_raw_imagery returned, the features and the stats
    rq          \* one request GET /forest-loss: pc, the query parameters, the
                \* services found, the exception in flight and the response

ufVars == <<parent, rank, size, unioned, ufCalls, ufRet>>

vars == <<parent, rank, size, unioned, ufCalls, ufRet, cc, ip, vp, sd, gp, rq>>

(***************************************************************************)
(* Bounds                                                                  *)
(***************************************************************************)
UFN == 4          \* elements of the stand-alone UnionFind
MaxUFCalls == 3   \* calls made on the stand-alone UnionFind
MaxPts == 3       \* points handed to cluster_changes

MaxPathCalls == 4 \* calls made on the UnionFind whose paths are followed

\* (lon, lat) positions the input points are drawn from
Positions == {<<0, 0>>, <<1, 0>>, <<0, 1>>, <<3, 0>>}
\* values of neighbor_distance
Radii == {0, 1, 2}
\* values of min_cluster_size
MinSizes == 0 .. (MaxPts + 1)

MaxDetPts == 2    \* points in t1_pixels, t2_pixels and in a reference set
\* (lon, lat) positions of the points handed to the other detector methods,
\* in units of 0.0005 degree
DetPositions == {<<0, 0>>, <<1, 0>>, <<0, 2>>, <<9, 12>>}
\* values of neighbor_distance in that unit (the default 0.001 is 2)
NeighborDistances == {1, 2}
\* values of max_distance in that unit (the default 0.0005 is 1)
MaxDistances == {0, 1, 2}

Elems(n) == 0 .. (n - 1)

(***************************************************************************)
(* UnionFind                                                               *)
(***************************************************************************)
\* __init__: parent = list(range(n)), rank = [0]*n, size = [1]*n
UFInit(n) ==
    [parent |-> [i \in Elems(n) |-> i],
     rank   |-> [i \in Elems(n) |-> 0],
     size   |-> [i \in Elems(n) |-> 1]]

\* A find that returns the parent of x without following the chain.
RECURSIVE FindRecNoChain(_, _)
FindRecNoChain(p, x) == <<p, p[x]>>

\* A find that follows the chain to the root and writes nothing.
RECURSIVE FindRecNoCompression(_, _)
FindRecNoCompression(p, x) ==
    IF p[x] # x THEN <<p, FindRecNoCompression(p, p[x])[2]>> ELSE <<p, p[x]>>

\* find(x): returns <<parent array after the call, returned root>>.
RECURSIVE FindRec(_, _)
FindRec(p, x) ==
    IF p[x] # x
    THEN LET sub == FindRec(p, p[x])
             p2  == [sub[1] EXCEPT ![x] = sub[2]]
         IN  <<p2, p2[x]>>
    ELSE <<p, p[x]>>

\* A union that links y itself (not its root) under the root of x.
UnionOpLinkElem(uf, x, y) ==
    LET fx == FindRec(uf.parent, x)
        fy == FindRec(fx[1], y)
        p  == fy[1]
        root_x == fx[2]
        root_y == fy[2]
    IN  IF root_x = root_y
        THEN [uf |-> [uf EXCEPT !.parent = p], ret |-> FALSE]
        ELSE [uf |-> [parent |-> [p EXCEPT ![y] = root_x],
                      rank   |-> uf.rank,
                      size   |-> [uf.size EXCEPT ![root_x] = @ + uf.size[root_y]]],
              ret |-> TRUE]

\* A union that forgets to add the absorbed size in the equal-rank branch.
UnionOpNoSize(uf, x, y) ==
    LET fx == FindRec(uf.parent, x)
        fy == FindRec(fx[1], y)
        p  == fy[1]
        root_x == fx[2]
        root_y == fy[2]
    IN  IF root_x = root_y
        THEN [uf |-> [uf EXCEPT !.parent = p], ret |-> FALSE]
        ELSE IF uf.rank[root_x] < uf.rank[root_y]
        THEN [uf |-> [parent |-> [p EXCEPT ![root_x] = root_y],
                      rank   |-> uf.rank,
                      size   |-> [uf.size EXCEPT ![root_y] = @ + uf.size[root_x]]],
              ret |-> TRUE]
        ELSE IF uf.rank[root_x] > uf.rank[root_y]
        THEN [uf |-> [parent |-> [p EXCEPT ![root_y] = root_x],
                      rank   |-> uf.rank,
                      size   |-> [uf.size EXCEPT ![root_x] = @ + uf.size[root_y]]],
              ret |-> TRUE]
        ELSE [uf |-> [parent |-> [p EXCEPT ![root_y] = root_x],
                      rank   |-> [uf.rank EXCEPT ![root_x] = @ + 1],
                      size   |-> uf.size],
              ret |-> TRUE]

\* A union that, on equal ranks, puts the root of x under the root of y.
UnionOpTieUnderSecond(uf, x, y) ==
    LET fx == FindRec(uf.parent, x)
        fy == FindRec(fx[1], y)
        p  == fy[1]
        root_x == fx[2]
        root_y == fy[2]
    IN  IF root_x = root_y
        THEN [uf |-> [uf EXCEPT !.parent = p], ret |-> FALSE]
        ELSE IF uf.rank[root_x] < uf.rank[root_y]
        THEN [uf |-> [parent |-> [p EXCEPT ![root_x] = root_y],
                      rank   |-> uf.rank,
                      size   |-> [uf.size EXCEPT ![root_y] = @ + uf.size[root_x]]],
              ret |-> TRUE]
        ELSE IF uf.rank[root_x] > uf.rank[root_y]
        THEN [uf |-> [parent |-> [p EXCEPT ![root_y] = root_x],
                      rank   |-> uf.rank,
                      size   |-> [uf.size EXCEPT ![root_x] = @ + uf.size[root_y]]],
              ret |-> TRUE]
        ELSE [uf |-> [parent |-> [p EXCEPT ![root_x] = root_y],
                      rank   |-> [uf.rank EXCEPT ![root_y] = @ + 1],
                      size   |-> [uf.size EXCEPT ![root_y] = @ + uf.size[root_x]]],
              ret |-> TRUE]

\* A union that compares x and y themselves instead of their roots.
UnionOpComparesElems(uf, x, y) ==
    LET fx == FindRec(uf.parent, x)
        fy == FindRec(fx[1], y)
        p  == fy[1]
        root_x == fx[2]
        root_y == fy[2]
    IN  IF x = y
        THEN [uf |-> [uf EXCEPT !.parent = p], ret |-> FALSE]
        ELSE IF uf.rank[root_x] < uf.rank[root_y]
        THEN [uf |-> [parent |-> [p EXCEPT ![root_x] = root_y],
                      rank   |-> uf.rank,
                      size   |-> [uf.size EXCEPT ![root_y] = @ + uf.size[root_x]]],
              ret |-> TRUE]
        ELSE IF uf.rank[root_x] > uf.rank[root_y]
        THEN [uf |-> [parent |-> [p EXCEPT ![root_y] = root_x],
                      rank   |-> uf.rank,
                      size   |-> [uf.size EXCEPT ![root_x] = @ + uf.size[root_y]]],
              ret |-> TRUE]
        ELSE [uf |-> [parent |-> [p EXCEPT ![root_y] = root_x],
                      rank   |-> [uf.rank EXCEPT ![root_x] = @ + 1],
                      size   |-> [uf.size EXCEPT ![root_x] = @ + uf.size[root_y]]],
              ret |-> TRUE]

\* A union that never raises a rank.
UnionOpNoRank(uf, x, y) ==
    LET fx == FindRec(uf.parent, x)
        fy == FindRec(fx[1], y)
        p  == fy[1]
        root_x == fx[2]
        root_y == fy[2]
    IN  IF root_x = root_y
        THEN [uf |-> [uf EXCEPT !.parent = p], ret |-> FALSE]
        ELSE IF uf.rank[root_x] < uf.rank[root_y]
        THEN [uf |-> [parent |-> [p EXCEPT ![root_x] = root_y],
                      rank   |-> uf.rank,
                      size   |-> [uf.size EXCEPT ![root_y] = @ + uf.size[root_x]]],
              ret |-> TRUE]
        ELSE [uf |-> [parent |-> [p EXCEPT ![root_y] = root_x],
                      rank   |-> uf.rank,
                      size   |-> [uf.size EXCEPT ![root_x] = @ + uf.size[root_y]]],
              ret |-> TRUE]

\* union(x, y): returns [uf |-> structure after the call, ret |-> returned bool].
UnionOp(uf, x, y) ==
    LET fx == FindRec(uf.parent, x)
        fy == FindRec(fx[1], y)
        p  == fy[1]
        root_x == fx[2]
        root_y == fy[2]
    IN  IF root_x = root_y
        THEN [uf |-> [uf EXCEPT !.parent = p], ret |-> FALSE]
        ELSE IF uf.rank[root_x] < uf.rank[root_y]
        THEN [uf |-> [parent |-> [p EXCEPT ![root_x] = root_y],
                      rank   |-> uf.rank,
                      size   |-> [uf.size EXCEPT ![root_y] = @ + uf.size[root_x]]],
              ret |-> TRUE]
        ELSE IF uf.rank[root_x] > uf.rank[root_y]
        THEN [uf |-> [parent |-> [p EXCEPT ![root_y] = root_x],
                      rank   |-> uf.rank,
                      size   |-> [uf.size EXCEPT ![root_x] = @ + uf.size[root_y]]],
              ret |-> TRUE]
        ELSE [uf |-> [parent |-> [p EXCEPT ![root_y] = root_x],
                      rank   |-> [uf.rank EXCEPT ![root_x] = @ + 1],
                      size   |-> [uf.size EXCEPT ![root_x] = @ + uf.size[root_y]]],
              ret |-> TRUE]

\* get_size(x): returns [uf |-> structure after the call, ret |-> size[find(x)]].
GetSizeOp(uf, x) ==
    LET f == FindRec(uf.parent, x)
    IN  [uf |-> [uf EXCEPT !.parent = f[1]], ret |-> uf.size[f[2]]]

TheUF == [parent |-> parent, rank |-> rank, size |-> size]

UFStart ==
    /\ parent = UFInit(UFN).parent
    /\ rank = UFInit(UFN).rank
    /\ size = UFInit(UFN).size
    /\ unioned = {}
    /\ ufCalls = 0
    /\ ufRet = [op |-> "init", x |-> 0, ret |-> 0]
    /\ sd = [pc |-> "unused"]
    /\ gp = [pc |-> "unused"]
    /\ rq = [pc |-> "unused"]
    /\ cc = [pc |-> "unused"]
    /\ ip = [pc |-> "unused"]
    /\ vp = [pc |-> "unused"]

Union(x, y) ==
    /\ ufCalls < MaxUFCalls
    /\ LET r == UnionOp(TheUF, x, y)
       IN  /\ parent' = r.uf.parent
           /\ rank' = r.uf.rank
           /\ size' = r.uf.size
           /\ ufRet' = [op |-> "union", x |-> x, ret |-> r.ret]
    /\ unioned' = unioned \cup {<<x, y>>}
    /\ ufCalls' = ufCalls + 1
    /\ UNCHANGED <<cc, ip, vp, sd, gp, rq>>

Find(x) ==
    /\ ufCalls < MaxUFCalls
    /\ LET f == FindRec(parent, x)
       IN  /\ parent' = f[1]
           /\ ufRet' = [op |-> "find", x |-> x, ret |-> f[2]]
    /\ ufCalls' = ufCalls + 1
    /\ UNCHANGED <<rank, size, unioned, cc, ip, vp, sd, gp, rq>>

GetSize(x) ==
    /\ ufCalls < MaxUFCalls
    /\ LET r == GetSizeOp(TheUF, x)
       IN  /\ parent' = r.uf.parent
           /\ ufRet' = [op |-> "get_size", x |-> x, ret |-> r.ret]
    /\ ufCalls' = ufCalls + 1
    /\ UNCHANGED <<rank, size, unioned, cc, ip, vp, sd, gp, rq>>

UFNext ==
    \/ \E x, y \in Elems(UFN) : Union(x, y)
    \/ \E x \in Elems(UFN) : Find(x)
    \/ \E x \in Elems(UFN) : GetSize(x)

SpecUF == UFStart /\ [][UFNext]_vars

(***************************************************************************)
(* Claims on UnionFind                                                     *)
(***************************************************************************)
\* What find(x) would return in the current state.
RootNow(x) == FindRec(parent, x)[2]

\* The elements reachable from the set S through pairs passed to union,
\* read in both directions.
RECURSIVE UnionReach(_)
UnionReach(S) ==
    LET step == S \cup {b \in Elems(UFN) : \E a \in S : <<a, b>> \in unioned \/ <<b, a>> \in unioned}
    IN  IF step = S THEN S ELSE UnionReach(step)

\* x and y are related by the reflexive-symmetric-transitive closure of unioned.
UnionRelated(x, y) == y \in UnionReach({x})

\* C1: after any sequence of union/find/get_size calls, find(x) = find(y)
\* exactly when x and y are related by the reflexive-symmetric-transitive
\* closure of the pairs passed to union so far.
C1_FindIffUnioned ==
    \A x, y \in Elems(UFN) : (RootNow(x) = RootNow(y)) <=> UnionRelated(x, y)

\* Two elements never passed to union together share a root through a third.
C1_Witness ==
    /\ <<0, 1>> \in unioned /\ <<1, 2>> \in unioned
    /\ <<0, 2>> \notin unioned /\ <<2, 0>> \notin unioned
    /\ RootNow(0) = RootNow(2)
    /\ RootNow(0) # RootNow(3)

\* C2: get_size(x) equals the number of elements whose root is find(x).
C2_SizeIsClassCount ==
    \A x \in Elems(UFN) :
        GetSizeOp(TheUF, x).ret = Cardinality({y \in Elems(UFN) : RootNow(y) = RootNow(x)})

\* get_size has just answered 3 for an element that is not a root.
C2_Witness ==
    /\ ufRet.op = "get_size" /\ ufRet.ret = 3
    /\ ufRet.x # RootNow(ufRet.x)

\* C3: find(x) returns an element that is its own parent, in the structure
\* as find leaves it.
C3_FindReturnsRoot ==
    \A x \in Elems(UFN) :
        LET f == FindRec(parent, x) IN f[1][f[2]] = f[2]

\* find has just been called on a non-root element and returned its root,
\* which is its own parent.
C3_Witness ==
    /\ ufRet.op = "find" /\ ufRet.ret # ufRet.x
    /\ parent[ufRet.ret] = ufRet.ret
    /\ Cardinality({z \in Elems(UFN) : RootNow(z) = ufRet.ret}) = 3

(***************************************************************************)
(* SpatialChangeDetector.cluster_changes                                   *)
(***************************************************************************)
\* The indices of a set of naturals in ascending order.
RECURSIVE SortedSeq(_)
SortedSeq(S) ==
    IF S = {} THEN <<>>
    ELSE LET m == CHOOSE a \in S : \A b \in S : a <= b
         IN  <<m>> \o SortedSeq(S \ {m})

\* Squared Euclidean distance of two (lon, lat) points.
DistSq(a, b) == (a[1] - b[1]) * (a[1] - b[1]) + (a[2] - b[2]) * (a[2] - b[2])

\* Euclidean distance <= r, for r >= 0.
WithinRadius(a, b, r) == DistSq(a, b) <= r * r

\* A radius query that ignores the radius and returns every point.
QueryRadiusAll(pts, n, r) ==
    [i \in Elems(n) |-> SortedSeq(Elems(n))]

\* A radius query that leaves out points exactly at distance r.
QueryRadiusStrict(pts, n, r) ==
    [i \in Elems(n) |-> SortedSeq({j \in Elems(n) : DistSq(pts[i], pts[j]) < r * r})]

\* KDTreeSpatial.query_radius(points, r) on the tree built over the same
\* points: for each point the indices within r of it (itself included),
\* in ascending order as query_ball_point returns them for an array query.
QueryRadius(pts, n, r) ==
    [i \in Elems(n) |-> SortedSeq({j \in Elems(n) : WithinRadius(pts[i], pts[j], r)})]

\* for j in neighbors: if i != j: uf.union(i, j)
RECURSIVE UnionNeighbors(_, _, _)
UnionNeighbors(uf, i, neighbors) ==
    IF neighbors = <<>> THEN uf
    ELSE LET j == Head(neighbors)
             uf2 == IF i # j THEN UnionOp(uf, i, j).uf ELSE uf
         IN  UnionNeighbors(uf2, i, Tail(neighbors))

\* Position of root among the keys of comps, 0 if absent.
KeyIndex(comps, root) ==
    IF \E k \in 1 .. Len(comps) : comps[k].root = root
    THEN CHOOSE k \in 1 .. Len(comps) : comps[k].root = root
    ELSE 0

\* get_components, from index i on: comps is the dictionary so far, as the
\* sequence of its items in insertion order.
RECURSIVE GetComponentsFrom(_, _, _, _)
GetComponentsFrom(uf, n, i, comps) ==
    IF i >= n THEN [uf |-> uf, ret |-> comps]
    ELSE LET f == FindRec(uf.parent, i)
             root == f[2]
             k == KeyIndex(comps, root)
             comps1 == IF k = 0
                       THEN Append(comps, [root |-> root, indices |-> <<>>])
                       ELSE comps
             k1 == KeyIndex(comps1, root)
             comps2 == [comps1 EXCEPT ![k1].indices = Append(@, i)]
         IN  GetComponentsFrom([uf EXCEPT !.parent = f[1]], n, i + 1, comps2)

\* A get_components that keys each index by its parent instead of its root.
RECURSIVE GetComponentsByParentFrom(_, _, _, _)
GetComponentsByParentFrom(uf, n, i, comps) ==
    IF i >= n THEN [uf |-> uf, ret |-> comps]
    ELSE LET root == uf.parent[i]
             k == KeyIndex(comps, root)
             comps1 == IF k = 0
                       THEN Append(comps, [root |-> root, indices |-> <<>>])
                       ELSE comps
             k1 == KeyIndex(comps1, root)
             comps2 == [comps1 EXCEPT ![k1].indices = Append(@, i)]
         IN  GetComponentsByParentFrom(uf, n, i + 1, comps2)

GetComponentsByParent(uf, n) == GetComponentsByParentFrom(uf, n, 0, <<>>)

\* UnionFind.get_components()
GetComponentsOp(uf, n) == GetComponentsFrom(uf, n, 0, <<>>)

\* A size filter that keeps only components strictly larger than the minimum.
RECURSIVE FilterClustersStrict(_, _, _)
FilterClustersStrict(comps, pts, minSize) ==
    IF comps = <<>> THEN <<>>
    ELSE LET c == Head(comps)
             rest == FilterClustersStrict(Tail(comps), pts, minSize)
         IN  IF Len(c.indices) > minSize
             THEN <<[indices |-> c.indices,
                     pixels |-> [k \in 1 .. Len(c.indices) |-> pts[c.indices[k]]]]>> \o rest
             ELSE rest

\* The size filter: for each component of at least minSize points, the
\* array change_pixels[indices]; the index list is kept beside it.
RECURSIVE FilterClusters(_, _, _)
FilterClusters(comps, pts, minSize) ==
    IF comps = <<>> THEN <<>>
    ELSE LET c == Head(comps)
             rest == FilterClusters(Tail(comps), pts, minSize)
         IN  IF Len(c.indices) >= minSize
             THEN <<[indices |-> c.indices,
                     pixels |-> [k \in 1 .. Len(c.indices) |-> pts[c.indices[k]]]]>> \o rest
             ELSE rest

NoUF == [parent |-> <<>>, rank |-> <<>>, size |-> <<>>]

\* A call cluster_changes(change_pixels) on a detector built with
\* min_cluster_size and neighbor_distance.
ClusterCall ==
    \E n \in 0 .. MaxPts :
    \E pts \in [Elems(n) -> Positions] :
    \E r \in Radii :
    \E m \in MinSizes :
        cc = [pc |-> "call", change_pixels |-> pts, n |-> n,
              min_cluster_size |-> m, neighbor_distance |-> r,
              uf |-> NoUF, neighbors_list |-> <<>>, i |-> 0,
              components |-> <<>>, clusters |-> <<>>]

ClusterStart ==
    /\ parent = <<>> /\ rank = <<>> /\ size = <<>>
    /\ unioned = {} /\ ufCalls = 0
    /\ ufRet = [op |-> "init", x |-> 0, ret |-> 0]
    /\ sd = [pc |-> "unused"]
    /\ gp = [pc |-> "unused"]
    /\ rq = [pc |-> "unused"]
    /\ ip = [pc |-> "unused"]
    /\ vp = [pc |-> "unused"]
    /\ ClusterCall

\* len(change_pixels) == 0: return []
ClusterEmpty ==
    /\ cc.pc = "call"
    /\ cc.n = 0
    /\ cc' = [cc EXCEPT !.pc = "done", !.clusters = <<>>]
    /\ UNCHANGED <<ufVars, ip, vp, sd, gp, rq>>

\* uf = UnionFind(n); kdtree = KDTreeSpatial(change_pixels);
\* neighbors_list = kdtree.query_radius(change_pixels, neighbor_distance)
ClusterBuild ==
    /\ cc.pc = "call"
    /\ cc.n # 0
    /\ cc' = [cc EXCEPT !.pc = "loop",
                        !.uf = UFInit(cc.n),
                        !.neighbors_list = QueryRadius(cc.change_pixels, cc.n, cc.neighbor_distance),
                        !.i = 0]
    /\ UNCHANGED <<ufVars, ip, vp, sd, gp, rq>>

\* One iteration of the outer loop: the unions of point i with its neighbours.
ClusterLoop ==
    /\ cc.pc = "loop"
    /\ cc.i < cc.n
    /\ cc' = [cc EXCEPT !.uf = UnionNeighbors(cc.uf, cc.i, cc.neighbors_list[cc.i]),
                        !.i = cc.i + 1]
    /\ UNCHANGED <<ufVars, ip, vp, sd, gp, rq>>

\* components = uf.get_components()
ClusterComponents ==
    /\ cc.pc = "loop"
    /\ cc.i = cc.n
    /\ LET g == GetComponentsOp(cc.uf, cc.n)
       IN  cc' = [cc EXCEPT !.pc = "filter", !.uf = g.uf, !.components = g.ret]
    /\ UNCHANGED <<ufVars, ip, vp, sd, gp, rq>>

\* The size filter and the return.
ClusterReturn ==
    /\ cc.pc = "filter"
    /\ cc' = [cc EXCEPT !.pc = "done",
                        !.clusters = FilterClusters(cc.components, cc.change_pixels,
                                                    cc.min_cluster_size)]
    /\ UNCHANGED <<ufVars, ip, vp, sd, gp, rq>>

ClusterNext ==
    \/ ClusterEmpty
    \/ ClusterBuild
    \/ ClusterLoop
    \/ ClusterComponents
    \/ ClusterReturn

SpecCluster == ClusterStart /\ [][ClusterNext]_vars

(***************************************************************************)
(* Claims on cluster_changes                                               *)
(***************************************************************************)
\* Two distinct input points whose Euclidean distance is within
\* neighbor_distance.
Linked(i, j) ==
    /\ i # j
    /\ DistSq(cc.change_pixels[i], cc.change_pixels[j])
           <= cc.neighbor_distance * cc.neighbor_distance

\* The connected component of the point graph that holds the points of S.
RECURSIVE GraphReach(_)
GraphReach(S) ==
    LET step == S \cup {j \in Elems(cc.n) : \E i \in S : Linked(i, j)}
    IN  IF step = S THEN S ELSE GraphReach(step)

GraphComponents == {GraphReach({i}) : i \in Elems(cc.n)}

SeqToSet(q) == {q[k] : k \in 1 .. Len(q)}

\* The index sets of the returned clusters.
ReturnedSets == {SeqToSet(cc.clusters[k].indices) : k \in 1 .. Len(cc.clusters)}

\* C4: the returned clusters are exactly the connected components of the
\* within-neighbor_distance graph that have at least min_cluster_size
\* points, each returned once as the coordinates of its points; no input
\* point is in two returned clusters and no smaller component is returned.
C4_ClustersAreComponents ==
    cc.pc = "done" =>
        /\ ReturnedSets = {c \in GraphComponents : Cardinality(c) >= cc.min_cluster_size}
        /\ Len(cc.clusters) = Cardinality(ReturnedSets)
        /\ \A k \in 1 .. Len(cc.clusters) :
              LET c == cc.clusters[k]
              IN  /\ Len(c.indices) = Cardinality(SeqToSet(c.indices))
                  /\ Len(c.pixels) = Len(c.indices)
                  /\ \A m \in 1 .. Len(c.indices) :
                        c.pixels[m] = cc.change_pixels[c.indices[m]]
        /\ \A k1, k2 \in 1 .. Len(cc.clusters) :
              k1 # k2 => SeqToSet(cc.clusters[k1].indices)
                             \cap SeqToSet(cc.clusters[k2].indices) = {}
        /\ \A k \in 1 .. Len(cc.clusters) :
              Len(cc.clusters[k].indices) >= cc.min_cluster_size

\* A call returned one cluster of three points chained through the middle
\* one: its end points are not within neighbor_distance of each other.
C4_Witness ==
    /\ cc.pc = "done"
    /\ cc.n = 3
    /\ cc.min_cluster_size = 3
    /\ Len(cc.clusters) = 1
    /\ Len(cc.clusters[1].indices) = 3
    /\ \E i, j \in Elems(cc.n) : i # j /\ ~Linked(i, j)

\* Every pair of distinct input points is farther apart than neighbor_distance.
AllFar ==
    \A i, j \in Elems(cc.n) :
        i # j => DistSq(cc.change_pixels[i], cc.change_pixels[j])
                     > cc.neighbor_distance * cc.neighbor_distance

\* Every pair of distinct input points is closer than neighbor_distance.
AllNear ==
    \A i, j \in Elems(cc.n) :
        i # j => DistSq(cc.change_pixels[i], cc.change_pixels[j])
                     < cc.neighbor_distance * cc.neighbor_distance

\* The unions of the call are over.
UnionsOver == cc.pc \in {"filter", "done"} \/ (cc.pc = "loop" /\ cc.i = cc.n)

\* C5: when all points are pairwise farther apart than neighbor_distance,
\* the union-find ends with N singleton components, and the returned list
\* is empty whenever min_cluster_size > 1.
C5_AllFarGivesSingletons ==
    AllFar =>
        /\ (UnionsOver /\ cc.n > 0) =>
              \A i \in Elems(cc.n) :
                  /\ FindRec(cc.uf.parent, i)[2] = i
                  /\ GetSizeOp(cc.uf, i).ret = 1
        /\ cc.pc \in {"filter", "done"} =>
              /\ Len(cc.components) = cc.n
              /\ \A k \in 1 .. Len(cc.components) : Len(cc.components[k].indices) = 1
        /\ (cc.pc = "done" /\ cc.min_cluster_size > 1) => cc.clusters = <<>>

\* Three pairwise distant points were clustered with min_cluster_size 2
\* and nothing was returned.
C5_Witness ==
    /\ AllFar
    /\ cc.pc = "done"
    /\ cc.n = 3
    /\ cc.neighbor_distance > 0
    /\ cc.min_cluster_size = 2
    /\ Len(cc.components) = 3
    /\ cc.clusters = <<>>

\* The result is one cluster holding all N input points.
OneClusterOfAll ==
    /\ Len(cc.clusters) = 1
    /\ SeqToSet(cc.clusters[1].indices) = Elems(cc.n)
    /\ Len(cc.clusters[1].pixels) = cc.n
    /\ \A m \in 1 .. cc.n : cc.clusters[1].pixels[m] = cc.change_pixels[m - 1]

\* C6 as stated: when all points are pairwise closer than neighbor_distance
\* and N >= min_cluster_size, the result is exactly one cluster holding all
\* N points.
C6_Original ==
    (cc.pc = "done" /\ AllNear /\ cc.n >= cc.min_cluster_size) => OneClusterOfAll

\* C6 amended: the same for a non-empty point set (N >= 1); an empty point
\* set returns the empty list.
C6_AllNearGivesOneCluster ==
    /\ (cc.pc = "done" /\ AllNear /\ cc.n >= cc.min_cluster_size /\ cc.n >= 1)
          => OneClusterOfAll
    /\ (cc.pc = "done" /\ cc.n = 0) => cc.clusters = <<>>

\* Three distinct, pairwise close points came back as one cluster of three.
C6_Witness ==
    /\ cc.pc = "done"
    /\ AllNear
    /\ cc.n = 3
    /\ cc.min_cluster_size = 3
    /\ Cardinality({cc.change_pixels[i] : i \in Elems(cc.n)}) = 3
    /\ OneClusterOfAll

(***************************************************************************)
(* LocalImageProcessor: numbers                                            *)
(*                                                                         *)
(* Index values (NDVI, EVI and their changes) are fixed-point integers in  *)
(* thousandths: 600 stands for 0.6.  An array is a function on the pixels  *)
(* <<row, col>> of an H x W raster.                                        *)
(***************************************************************************)
forest_ndvi_threshold == 300   \* self.forest_ndvi_threshold = 0.3
forest_evi_threshold == 300    \* evi_before > 0.3
min_change_threshold == 120    \* self.min_change_threshold = 0.12
evi_change_threshold == 100    \* evi_change > 0.1
MadCoef == 6745                \* 0.6745, in ten-thousandths
ZLimit == 3                    \* |z| < 3

Pix(H, W) == (0 .. (H - 1)) \X (0 .. (W - 1))

Abs(a) == IF a < 0 THEN -a ELSE a

\* The k-th smallest value (k = 1 is the minimum) of array f over pixels D.
KthSmallest(f, D, k) ==
    CHOOSE v \in {f[p] : p \in D} :
        /\ Cardinality({p \in D : f[p] <= v}) >= k
        /\ Cardinality({p \in D : f[p] < v}) < k

\* Twice np.median(f): the middle value, or the mean of the two middle
\* values when the number of pixels is even.
Median2(f, D) ==
    LET n == Cardinality(D)
    IN  IF n % 2 = 1
        THEN 2 * KthSmallest(f, D, (n + 1) \div 2)
        ELSE KthSmallest(f, D, n \div 2) + KthSmallest(f, D, n \div 2 + 1)

\* a / b rounded to the nearest integer, for b > 0.
RoundDiv(a, b) == (2 * a + b) \div (2 * b)

\* np.nan in a float array.  Every comparison with it is false.
NaN == -1000000

\* x > t on floats.
Gt(x, t) == x # NaN /\ x > t

Clip(x, lo, hi) == IF x < lo THEN lo ELSE IF x > hi THEN hi ELSE x

(***************************************************************************)
(* Stages 1 and 2: atmospheric correction, normalisation, NDVI and EVI.    *)
(* A band holds integer digital numbers; the corrected band is in          *)
(* hundredths of a digital number, normalised bands and indices are in     *)
(* thousandths.                                                            *)
(***************************************************************************)
\* What np.percentile does with an empty selection depends on the installed
\* numpy: it raises IndexError, or it returns nan with a warning.
EmptyPercentileRules == {"raises", "nan"}

\* 100 * np.percentile(f over D, q) for a non-empty D: linear interpolation
\* between the two order statistics around position (n - 1) * q / 100.
Percentile100(f, D, q) ==
    LET n == Cardinality(D)
        pos == (n - 1) * q
        lo == pos \div 100
        a == KthSmallest(f, D, lo + 1)
        b == KthSmallest(f, D, IF lo + 2 > n THEN n ELSE lo + 2)
    IN  100 * a + (pos % 100) * (b - a)

\* The result of a step that may raise.
Raised == [raised |-> TRUE, band |-> <<>>]

\* atmospheric_correction(image): dark_value is the 2nd percentile of the
\* positive values; the band minus dark_value, floored at 0.
AtmosphericCorrection(image, D, empty_rule) ==
    LET positive == {p \in D : image[p] > 0}
        dark_value == Percentile100(image, positive, 2)
    IN  IF positive = {}
        THEN IF empty_rule = "raises" THEN Raised
             ELSE [raised |-> FALSE, band |-> [p \in D |-> NaN]]
        ELSE [raised |-> FALSE,
              band |-> [p \in D |-> IF 100 * image[p] > dark_value
                                    THEN 100 * image[p] - dark_value ELSE 0]]

\* normalize_band(band): clip to the 1st..99th percentile of the positive
\* values, then (band_clipped - min) / (max - min + 1e-8).  A band that is
\* NaN is NaN throughout (it comes from a NaN dark_value).
NormalizeBand(band, D, empty_rule) ==
    LET positive == {p \in D : Gt(band[p], 0)}
        p1 == Percentile100(band, positive, 1)
        p99 == Percentile100(band, positive, 99)
        band_clipped == [p \in D |-> Clip(100 * band[p], p1, p99)]
        lo == KthSmallest(band_clipped, D, 1)
        hi == KthSmallest(band_clipped, D, Cardinality(D))
    IN  IF positive = {}
        THEN IF empty_rule = "raises" THEN Raised
             ELSE [raised |-> FALSE, band |-> [p \in D |-> NaN]]
        ELSE [raised |-> FALSE,
              band |-> [p \in D |-> IF hi = lo THEN 0
                                    ELSE RoundDiv(1000 * (band_clipped[p] - lo), hi - lo)]]

\* The quotient num / 1e-8 after clipping to [-1, 1], for num a whole number
\* of thousandths.
OverEpsilon(num) == IF num > 0 THEN 1000 ELSE IF num < 0 THEN -1000 ELSE 0

\* compute_ndvi(nir, red) = clip((nir - red) / (nir + red + 1e-8), -1, 1).
\* On whole thousandths the 1e-8 matters only where nir + red = 0.
ComputeNdvi(nir, red, D) ==
    [p \in D |-> IF nir[p] = NaN \/ red[p] = NaN THEN NaN
                 ELSE IF nir[p] + red[p] = 0 THEN OverEpsilon(nir[p] - red[p])
                 ELSE Clip(RoundDiv(1000 * (nir[p] - red[p]), nir[p] + red[p]), -1000, 1000)]

\* compute_evi(nir, red) = clip(2.5 * (nir - red) / (nir + 6 * red + 1e-8), -1, 1)
ComputeEvi(nir, red, D) ==
    [p \in D |-> IF nir[p] = NaN \/ red[p] = NaN THEN NaN
                 ELSE IF nir[p] + 6 * red[p] = 0 THEN OverEpsilon(nir[p] - red[p])
                 ELSE Clip(RoundDiv(2500 * (nir[p] - red[p]), nir[p] + 6 * red[p]), -1000, 1000)]


(***************************************************************************)
(* Stage 3: multi_temporal_filter                                          *)
(***************************************************************************)
\* A filter that tests z < 3 instead of |z| < 3.
MultiTemporalFilterSigned(before, after, D) ==
    LET change == [p \in D |-> IF before[p] = NaN \/ after[p] = NaN THEN NaN
                               ELSE before[p] - after[p]]
        med2 == Median2(change, D)
        dev2 == [p \in D |-> Abs(2 * change[p] - med2)]
        mad4 == Median2(dev2, D)
    IN  [change |-> change,
         valid |-> IF \E p \in D : change[p] = NaN
                   THEN [p \in D |-> FALSE]
                   ELSE [p \in D |-> MadCoef * (2 * change[p] - med2) * 5
                                         < ZLimit * (25000 * mad4 + 1)]]

\* multi_temporal_filter(before, after): the change array and the validity
\* mask.  With med2 = 2*median(change), dev2 = 2*|change - median| and
\* mad4 = 4*MAD (all in thousandths),
\*     |0.6745 * (change - median) / (MAD + 1e-8)| < 3
\* is  6745 * dev2 * 5 < 3 * (25000 * mad4 + 1).  A NaN in the change makes
\* the median, the MAD and every z-score NaN, and no pixel valid.
MultiTemporalFilter(before, after, D) ==
    LET change == [p \in D |-> IF before[p] = NaN \/ after[p] = NaN THEN NaN
                               ELSE before[p] - after[p]]
        med2 == Median2(change, D)
        dev2 == [p \in D |-> Abs(2 * change[p] - med2)]
        mad4 == Median2(dev2, D)
    IN  [change |-> change,
         valid |-> IF \E p \in D : change[p] = NaN
                   THEN [p \in D |-> FALSE]
                   ELSE [p \in D |-> MadCoef * dev2[p] * 5 < ZLimit * (25000 * mad4 + 1)]]

(***************************************************************************)
(* Stage 4: forest baseline and deforestation mask                         *)
(***************************************************************************)
\* forest_mask = (ndvi_before > forest_ndvi_threshold) | (evi_before > 0.3)
ForestMask(ndvi_before, evi_before, D) ==
    [p \in D |-> Gt(ndvi_before[p], forest_ndvi_threshold)
                     \/ Gt(evi_before[p], forest_evi_threshold)]

\* A mask whose EVI loss term is not AND-ed with the validity mask.
DeforestationMaskEviUnchecked(forest_mask, ndvi_change, evi_change, valid_mask, D) ==
    LET ndvi_loss == [p \in D |-> Gt(ndvi_change[p], min_change_threshold) /\ valid_mask[p]]
        evi_loss  == [p \in D |-> Gt(evi_change[p], evi_change_threshold)]
    IN  [p \in D |-> forest_mask[p] /\ (ndvi_loss[p] \/ evi_loss[p])]

\* ndvi_loss = (ndvi_change > min_change_threshold) & valid_mask
\* evi_loss = (evi_change > 0.1) & valid_mask
\* deforestation_mask = forest_mask & (ndvi_loss | evi_loss)
DeforestationMask(forest_mask, ndvi_change, evi_change, valid_mask, D) ==
    LET ndvi_loss == [p \in D |-> Gt(ndvi_change[p], min_change_threshold) /\ valid_mask[p]]
        evi_loss  == [p \in D |-> Gt(evi_change[p], evi_change_threshold) /\ valid_mask[p]]
    IN  [p \in D |-> forest_mask[p] /\ (ndvi_loss[p] \/ evi_loss[p])]

(***************************************************************************)
(* Stage 5: morphological processing.  A mask is a function from the       *)
(* pixels to BOOLEAN; the operators below work on its set of true pixels.  *)
(***************************************************************************)
min_deforestation_area == 9    \* self.min_deforestation_area = 0.09, in hundredths of a hectare
pixel_size == 30               \* self.pixel_size = 30
min_pixels_floor == 10         \* max(10, ...)
hole_area_threshold == 100     \* remove_small_holes(area_threshold=100)

TrueSet(mask, D) == {p \in D : mask[p]}
MaskOf(S, D) == [p \in D |-> p \in S]

\* scipy's 'reflect' boundary: index i of an axis of length n, mirrored at
\* the edges (d c b a | a b c d | d c b a).
Reflect(i, n) ==
    LET m == i % (2 * n)
    IN  IF m < n THEN m ELSE 2 * n - 1 - m

\* ndimage.median_filter(mask, size=3) of a 0/1 array: the median of the
\* nine values of the reflected 3 x 3 window is 1 when at least five are 1.
MedianFilter3(S, H, W) ==
    {p \in Pix(H, W) :
        Cardinality({o \in (-1 .. 1) \X (-1 .. 1) :
            <<Reflect(p[1] + o[1], H), Reflect(p[2] + o[2], W)>> \in S}) >= 5}

\* Face neighbours (connectivity 1).
Adj4(p, q) == Abs(p[1] - q[1]) + Abs(p[2] - q[2]) = 1

\* The pixels of M connected to the frontier F through face neighbours;
\* S is what has been collected so far.
RECURSIVE Flood4(_, _, _)
Flood4(F, S, M) ==
    LET N == {q \in M \ S : \E p \in F : Adj4(p, q)}
    IN  IF N = {} THEN S ELSE Flood4(N, S \cup N, M)

\* The face-connected components of the pixel set M.
RECURSIVE Components4(_)
Components4(M) ==
    IF M = {} THEN {}
    ELSE LET p == CHOOSE q \in M : TRUE
             c == Flood4({p}, {p}, M)
         IN  {c} \cup Components4(M \ c)

UnionOf(SS) == {p \in UNION SS : TRUE}

\* morphology.remove_small_objects(mask, min_size): drops the components
\* with fewer than min_size pixels.
RemoveSmallObjects(M, min_size) ==
    UnionOf({c \in Components4(M) : Cardinality(c) >= min_size})

\* morphology.remove_small_holes(mask, area_threshold): remove_small_objects
\* on the complement of the mask, complemented back.
RemoveSmallHoles(M, area_threshold, H, W) ==
    Pix(H, W) \ RemoveSmallObjects(Pix(H, W) \ M, area_threshold)

\* morphology.disk(radius): the offsets within the radius.
Disk(radius) ==
    {o \in (-radius .. radius) \X (-radius .. radius) :
        o[1] * o[1] + o[2] * o[2] <= radius * radius}

\* morphology.binary_dilation: pixels outside the raster count as False.
BinaryDilation(M, fp, H, W) ==
    {p \in Pix(H, W) : \E o \in fp : <<p[1] + o[1], p[2] + o[2]>> \in M}

\* morphology.binary_erosion: pixels outside the raster count as True.
BinaryErosion(M, fp, H, W) ==
    {p \in Pix(H, W) :
        \A o \in fp :
            LET q == <<p[1] + o[1], p[2] + o[2]>>
            IN  q \in Pix(H, W) => q \in M}

\* morphology.binary_closing: dilation, then erosion.
BinaryClosing(M, fp, H, W) == BinaryErosion(BinaryDilation(M, fp, H, W), fp, H, W)

\* morphology.binary_opening: erosion, then dilation.
BinaryOpening(M, fp, H, W) == BinaryDilation(BinaryErosion(M, fp, H, W), fp, H, W)

\* min_pixels = max(10, int(min_deforestation_area * 10000 / pixel_size ** 2))
MinPixels ==
    LET a == (min_deforestation_area * 100) \div (pixel_size * pixel_size)
    IN  IF a > min_pixels_floor THEN a ELSE min_pixels_floor

\* Step 2: remove_small_objects only if the mask has pixels.
Step2RemoveSmall(M) == IF Cardinality(M) > 0 THEN RemoveSmallObjects(M, MinPixels) ELSE M


(***************************************************************************)
(* Stage 6: multi-scale Gaussian smoothing.  Float arrays are fixed-point: *)
(* a mask as float has 1.0 = 10000, Gaussian weights are ten-thousandths   *)
(* that sum to 10000, and every pass is rounded to the nearest unit.       *)
(***************************************************************************)
\* Kernel of gaussian_filter(sigma=1.0): radius int(4 * 1.0 + 0.5) = 4.
\* Entry k + 1 is the weight at offset +-k.
GaussKernel10 == <<3990, 2420, 540, 44, 1>>
\* Kernel of gaussian_filter(sigma=2.0): radius 8.
GaussKernel20 == <<1994, 1760, 1210, 648, 270, 88, 22, 4, 1>>
\* Kernel of the Gaussian inside canny(sigma=1.5): radius 6.
GaussKernel15 == <<2660, 2130, 1093, 360, 76, 10, 1>>

\* Sum of f[k] for k in lo .. hi.
RECURSIVE SumRange(_, _, _)
SumRange(f, lo, hi) ==
    IF lo > hi THEN 0
    ELSE IF lo = hi THEN f[lo]
    ELSE LET mid == (lo + hi) \div 2
         IN  SumRange(f, lo, mid) + SumRange(f, mid + 1, hi)

\* One pass of a Gaussian along an axis (0 = rows, 1 = columns), with
\* mode 'reflect' (constant = FALSE) or 'constant', cval 0 (constant = TRUE).
GaussPass(a, kernel, axis, constant, H, W) ==
    LET rad == Len(kernel) - 1
        n == IF axis = 0 THEN H ELSE W
        at(p, k) ==
            LET i == (IF axis = 0 THEN p[1] ELSE p[2]) + k
                j == IF constant THEN i ELSE Reflect(i, n)
            IN  IF j < 0 \/ j >= n THEN 0
                ELSE IF axis = 0 THEN a[<<j, p[2]>>] ELSE a[<<p[1], j>>]
    IN  [p \in Pix(H, W) |->
            RoundDiv(SumRange([k \in -rad .. rad |-> kernel[Abs(k) + 1] * at(p, k)],
                              -rad, rad), 10000)]

\* ndimage.gaussian_filter / filters.gaussian: the pass along the rows, then
\* along the columns.
GaussianFilter(a, kernel, constant, H, W) ==
    GaussPass(GaussPass(a, kernel, 0, constant, H, W), kernel, 1, constant, H, W)

\* mask_float, smooth_fine, smooth_coarse and
\* smoothed = 0.7 * smooth_fine + 0.3 * smooth_coarse, which is returned in
\* units of 1e-5 (1.0 = 100000) as 7 * fine + 3 * coarse.
Smoothed(M, H, W) ==
    LET mask_float == [p \in Pix(H, W) |-> IF p \in M THEN 10000 ELSE 0]
        smooth_coarse == GaussianFilter(mask_float, GaussKernel20, FALSE, H, W)
        smooth_fine == GaussianFilter(mask_float, GaussKernel10, FALSE, H, W)
    IN  [p \in Pix(H, W) |-> 7 * smooth_fine[p] + 3 * smooth_coarse[p]]

smooth_threshold == 40000      \* smoothed > 0.4, in units of 1e-5

(***************************************************************************)
(* Stage 7: edge refinement                                                *)
(***************************************************************************)
canny_low == 200               \* low_threshold=0.2, in thousandths
canny_high == 600              \* high_threshold=0.6, in thousandths

\* The integer square root of n >= 0, searched in lo .. hi.
RECURSIVE IsqrtIn(_, _, _)
IsqrtIn(n, lo, hi) ==
    IF lo >= hi THEN lo
    ELSE LET mid == (lo + hi + 1) \div 2
         IN  IF mid * mid <= n THEN IsqrtIn(n, mid, hi) ELSE IsqrtIn(n, lo, mid - 1)

Isqrt(n) == IsqrtIn(n, 0, 46340)

\* King-move neighbours (the 3 x 3 structure of the hysteresis labelling).
Adj8(p, q) == p # q /\ Abs(p[1] - q[1]) <= 1 /\ Abs(p[2] - q[2]) <= 1

RECURSIVE Flood8(_, _, _)
Flood8(F, S, M) ==
    LET N == {q \in M \ S : \E p \in F : Adj8(p, q)}
    IN  IF N = {} THEN S ELSE Flood8(N, S \cup N, M)

\* The image canny works on: the Gaussian of the input with zeros outside,
\* divided by the Gaussian of an all-ones image (the bleed-over), in
\* thousandths.
CannySmoothed(img, H, W) ==
    LET ones == [p \in Pix(H, W) |-> 100000]
        g == GaussianFilter(img, GaussKernel15, TRUE, H, W)
        bleed_over == GaussianFilter(ones, GaussKernel15, TRUE, H, W)
    IN  [p \in Pix(H, W) |-> RoundDiv(g[p] * 1000, bleed_over[p])]

\* ndi.sobel(a, axis): the difference along the axis, smoothed by (1, 2, 1)
\* across it, with reflected borders.
Sobel(a, axis, H, W) ==
    LET v(r, c) == a[<<Reflect(r, H), Reflect(c, W)>>]
    IN  [p \in Pix(H, W) |->
            IF axis = 0
            THEN (v(p[1] + 1, p[2] - 1) - v(p[1] - 1, p[2] - 1))
                 + 2 * (v(p[1] + 1, p[2]) - v(p[1] - 1, p[2]))
                 + (v(p[1] + 1, p[2] + 1) - v(p[1] - 1, p[2] + 1))
            ELSE (v(p[1] - 1, p[2] + 1) - v(p[1] - 1, p[2] - 1))
                 + 2 * (v(p[1], p[2] + 1) - v(p[1], p[2] - 1))
                 + (v(p[1] + 1, p[2] + 1) - v(p[1] + 1, p[2] - 1))]

\* Non-maximum suppression with bilinear interpolation: pixel p, off the
\* raster border and of magnitude >= low, is kept when its magnitude is not
\* below the magnitudes interpolated one step along and one step against
\* the gradient.
NmsKeeps(p, isobel, jsobel, magnitude, H, W) ==
    LET x == p[1]
        y == p[2]
        m == magnitude[p]
        gi == isobel[p]
        gj == jsobel[p]
        ai == Abs(gi)
        aj == Abs(gj)
        cond1 == (gi >= 0 /\ gj >= 0) \/ (gi <= 0 /\ gj <= 0)
        steep == IF cond1 THEN ai > aj ELSE ~(ai < aj)
        num == IF steep THEN aj ELSE ai
        den == IF steep THEN ai ELSE aj
        n1 == IF cond1
              THEN IF steep THEN <<magnitude[<<x + 1, y>>], magnitude[<<x + 1, y + 1>>]>>
                            ELSE <<magnitude[<<x, y + 1>>], magnitude[<<x + 1, y + 1>>]>>
              ELSE IF steep THEN <<magnitude[<<x - 1, y>>], magnitude[<<x - 1, y + 1>>]>>
                            ELSE <<magnitude[<<x, y + 1>>], magnitude[<<x - 1, y + 1>>]>>
        n2 == IF cond1
              THEN IF steep THEN <<magnitude[<<x - 1, y>>], magnitude[<<x - 1, y - 1>>]>>
                            ELSE <<magnitude[<<x, y - 1>>], magnitude[<<x - 1, y - 1>>]>>
              ELSE IF steep THEN <<magnitude[<<x + 1, y>>], magnitude[<<x + 1, y - 1>>]>>
                            ELSE <<magnitude[<<x, y - 1>>], magnitude[<<x + 1, y - 1>>]>>
    IN  /\ x >= 1 /\ x <= H - 2 /\ y >= 1 /\ y <= W - 2
        /\ m >= canny_low
        /\ den > 0
        /\ n1[2] * num + n1[1] * (den - num) <= m * den
        /\ n2[2] * num + n2[1] * (den - num) <= m * den

\* The gradient magnitude np.hypot(isobel, jsobel), rounded down.
Magnitude(isobel, jsobel, H, W) ==
    [p \in Pix(H, W) |-> Isqrt(isobel[p] * isobel[p] + jsobel[p] * jsobel[p])]

\* The last steps of feature.canny: the pixels kept by non-maximum
\* suppression (low_mask), those of them at or above the high threshold
\* (high_mask), and the 8-connected groups of low_mask that hold a pixel of
\* high_mask.
CannyEdges(isobel, jsobel, magnitude, H, W) ==
    LET low_mask == {p \in Pix(H, W) : NmsKeeps(p, isobel, jsobel, magnitude, H, W)}
        high_mask == {p \in low_mask : magnitude[p] >= canny_high}
    IN  Flood8(high_mask, high_mask, low_mask)

\* edges_dilated = binary_dilation(edges, disk(1))
\* final_mask = binary_closing(defor_mask_smooth | edges_dilated, disk(1))
FinalMask(smooth, edges, H, W) ==
    BinaryClosing(smooth \cup BinaryDilation(edges, Disk(1), H, W), Disk(1), H, W)


(***************************************************************************)
(* Stage 8: vectorize_professional.  Contour points have half-integer      *)
(* coordinates, so every point is held doubled: <<2 * row, 2 * col>>.      *)
(***************************************************************************)
\* The marching-squares segments of one 2 x 2 square of pixels at level 0.5
\* (find_contours with fully_connected='low'), as <<from, to>> pairs.
SquareSegments(M, r0, c0) ==
    LET ul == IF <<r0, c0>> \in M THEN 1 ELSE 0
        ur == IF <<r0, c0 + 1>> \in M THEN 2 ELSE 0
        ll == IF <<r0 + 1, c0>> \in M THEN 4 ELSE 0
        lr == IF <<r0 + 1, c0 + 1>> \in M THEN 8 ELSE 0
        square_case == ul + ur + ll + lr
        top == <<2 * r0, 2 * c0 + 1>>
        bottom == <<2 * r0 + 2, 2 * c0 + 1>>
        left == <<2 * r0 + 1, 2 * c0>>
        right == <<2 * r0 + 1, 2 * c0 + 2>>
    IN  CASE square_case = 1 -> << <<top, left>> >>
          [] square_case = 2 -> << <<right, top>> >>
          [] square_case = 3 -> << <<right, left>> >>
          [] square_case = 4 -> << <<left, bottom>> >>
          [] square_case = 5 -> << <<top, bottom>> >>
          [] square_case = 6 -> << <<right, top>>, <<left, bottom>> >>
          [] square_case = 7 -> << <<right, bottom>> >>
          [] square_case = 8 -> << <<bottom, right>> >>
          [] square_case = 9 -> << <<top, left>>, <<bottom, right>> >>
          [] square_case = 10 -> << <<bottom, top>> >>
          [] square_case = 11 -> << <<bottom, left>> >>
          [] square_case = 12 -> << <<left, right>> >>
          [] square_case = 13 -> << <<top, right>> >>
          [] square_case = 14 -> << <<left, top>> >>
          [] OTHER -> <<>>

\* The segments of squares lo .. hi, numbered in row-major order (square k is
\* at row k \div (W - 1), column k % (W - 1)), in that order.
RECURSIVE SegmentsOf(_, _, _, _)
SegmentsOf(M, lo, hi, W) ==
    IF lo > hi THEN <<>>
    ELSE IF lo = hi THEN SquareSegments(M, lo \div (W - 1), lo % (W - 1))
    ELSE LET mid == (lo + hi) \div 2
         IN  SegmentsOf(M, lo, mid, W) \o SegmentsOf(M, mid + 1, hi, W)

\* A contour still growing: it has not been closed into a ring.
IsOpenContour(c) == c # <<>> /\ c[1] # c[Len(c)]

\* One pass of the loop of _assemble_contours: the segment closes a contour,
\* joins two (the joined contour keeps the lower number), extends one at its
\* head or tail, or starts a new one.  A joined-away contour leaves <<>> at
\* its number.
AddSegment(contours, segment) ==
    LET from_point == segment[1]
        to_point == segment[2]
        tails == {i \in DOMAIN contours :
                     IsOpenContour(contours[i]) /\ contours[i][1] = to_point}
        heads == {i \in DOMAIN contours :
                     IsOpenContour(contours[i])
                     /\ contours[i][Len(contours[i])] = from_point}
        tail_num == CHOOSE i \in tails : TRUE
        head_num == CHOOSE i \in heads : TRUE
    IN  IF tails # {} /\ heads # {}
        THEN IF tail_num = head_num
             THEN [contours EXCEPT ![head_num] = Append(@, to_point)]
             ELSE IF tail_num > head_num
             THEN [contours EXCEPT ![head_num] = contours[head_num] \o contours[tail_num],
                                   ![tail_num] = <<>>]
             ELSE [contours EXCEPT ![tail_num] = contours[head_num] \o contours[tail_num],
                                   ![head_num] = <<>>]
        ELSE IF tails = {} /\ heads = {}
        THEN Append(contours, <<from_point, to_point>>)
        ELSE IF heads = {}
        THEN [contours EXCEPT ![tail_num] = <<from_point>> \o @]
        ELSE [contours EXCEPT ![head_num] = Append(@, to_point)]

\* The contours after the first k of the segments have been added to
\* contours, in order.
RECURSIVE AssembleContours(_, _, _)
AssembleContours(segments, k, contours) ==
    IF k = 0 THEN contours
    ELSE AddSegment(AssembleContours(segments, k - 1, contours), segments[k])

\* The contours after the squares of row r0 have been visited, left to
\* right.
AssembleRow(M, r0, W, contours) ==
    LET segments == SegmentsOf(M, r0 * (W - 1), r0 * (W - 1) + W - 2, W)
    IN  AssembleContours(segments, Len(segments), contours)

\* What measure.find_contours returns once every row has been visited: the
\* contours in the order of their numbers.
FoundContours(contours) == SelectSeq(contours, LAMBDA c : c # <<>>)

\* cv2.contourArea(contour): the shoelace area of the contour taken as a
\* closed polygon, absolute value, returned in eighths of a pixel.
ContourArea8(c) ==
    LET n == Len(c)
        nxt(i) == IF i = n THEN 1 ELSE i + 1
    IN  Abs(SumRange([i \in 1 .. n |-> c[i][1] * c[nxt(i)][2] - c[nxt(i)][1] * c[i][2]], 1, n))

\* The squared distance approximate_polygon measures from point p to the
\* segment a-b, as <<numerator, denominator>> in doubled coordinates: the
\* perpendicular distance when p projects strictly inside the segment, else
\* the distance to the nearer end.
SegmentDist2(p, a, b) ==
    LET dr == b[1] - a[1]
        dc == b[2] - a[2]
        dr0 == p[1] - a[1]
        dc0 == p[2] - a[2]
        dr1 == p[1] - b[1]
        dc1 == p[2] - b[2]
        perp == dr0 * dr + dc0 * dc > 0 /\ (-dr1) * dr - dc1 * dc > 0
        cross == dr0 * dc - dc0 * dr
        d0 == dr0 * dr0 + dc0 * dc0
        d1 == dr1 * dr1 + dc1 * dc1
    IN  IF perp THEN <<cross * cross, dr * dr + dc * dc>>
        ELSE <<IF d0 < d1 THEN d0 ELSE d1, 1>>

\* x < y for two such fractions.
FracLess(x, y) == x[1] * y[2] < y[1] * x[2]

\* tolerance = max(1.0, sqrt(area_pixels) * 0.05); a distance d exceeds it
\* iff d^2 > max(1, area_pixels / 400).  With d^2 = num / (4 * den) in
\* doubled coordinates and area_pixels = area8 / 8 this is
\* 800 * num > max(3200, area8) * den.
ExceedsTolerance(d2, area8) ==
    800 * d2[1] > (IF area8 > 3200 THEN area8 ELSE 3200) * d2[2]

\* The indices approximate_polygon keeps strictly between start and end
\* (Douglas-Peucker: split at the first farthest point while some point is
\* farther than the tolerance).
RECURSIVE KeptBetween(_, _, _, _)
KeptBetween(c, start, end, area8) ==
    LET inner == (start + 1) .. (end - 1)
        dist(i) == SegmentDist2(c[i], c[start], c[end])
    IN  IF \A i \in inner : ~ExceedsTolerance(dist(i), area8) THEN {}
        ELSE LET new_end == CHOOSE i \in inner :
                                /\ \A j \in inner : ~FracLess(dist(i), dist(j))
                                /\ \A j \in inner : j < i => FracLess(dist(j), dist(i))
             IN  {new_end} \cup KeptBetween(c, start, new_end, area8)
                           \cup KeptBetween(c, new_end, end, area8)

\* measure.approximate_polygon(contour, tolerance): the kept points in order.
ApproximatePolygon(c, area8) ==
    LET chain == SortedSeq({1, Len(c)} \cup KeptBetween(c, 1, Len(c), area8))
    IN  [k \in 1 .. Len(chain) |-> c[chain[k]]]


\* The two behaviours draw.polygon has had for a pixel centre: "crossing"
\* is the even-odd ray test alone (a centre on the outline falls wherever
\* the half-open test puts it), "labelled" also takes every centre that
\* lies on the outline.  Which one runs depends on the installed
\* scikit-image.
DrawRules == {"crossing", "labelled"}

\* The ray from q towards larger columns crosses the edge a-b (the
\* half-open rule: a[1] <= q[1] < b[1] or b[1] <= q[1] < a[1]).
RayCrosses(q, a, b) ==
    /\ (a[1] <= q[1] /\ q[1] < b[1]) \/ (b[1] <= q[1] /\ q[1] < a[1])
    /\ IF b[1] > a[1]
       THEN (q[2] - a[2]) * (b[1] - a[1]) < (b[2] - a[2]) * (q[1] - a[1])
       ELSE (q[2] - a[2]) * (b[1] - a[1]) > (b[2] - a[2]) * (q[1] - a[1])

\* q lies on the closed edge a-b.
OnEdge(q, a, b) ==
    /\ (q[1] - a[1]) * (b[2] - a[2]) = (q[2] - a[2]) * (b[1] - a[1])
    /\ (q[1] - a[1]) * (q[1] - b[1]) <= 0
    /\ (q[2] - a[2]) * (q[2] - b[2]) <= 0

\* rr, cc = draw.polygon(contour[:, 0], contour[:, 1], mask.shape): the
\* pixels of the raster whose centre is in the polygon of the contour.
DrawPolygon(c, rule, H, W) ==
    LET n == Len(c)
        prev(i) == IF i = 1 THEN n ELSE i - 1
        crossings(q) == Cardinality({i \in 1 .. n : RayCrosses(q, c[i], c[prev(i)])})
        on_outline(q) == \E i \in 1 .. n : OnEdge(q, c[i], c[prev(i)])
    IN  {p \in Pix(H, W) :
            LET q == <<2 * p[1], 2 * p[2]>>
            IN  \/ crossings(q) % 2 = 1
                \/ rule = "labelled" /\ on_outline(q)}

\* round(num / den) for den > 0, to the nearest integer, a half to even.
RoundHalfEven(num, den) ==
    LET q == num \div den
        r == num % den
    IN  IF 2 * r < den THEN q
        ELSE IF 2 * r > den THEN q + 1
        ELSE IF q % 2 = 0 THEN q ELSE q + 1

\* The contour areas (in eighths of a pixel, up to 1150) whose hectare
\* value area_pixels * 900 / 10000 falls half way between two thousandths
\* and which round(area_ha, 3) sends up: the double nearest to such a value
\* lies above the half.
HaTiesRoundedUp ==
    {6, 10, 14, 18, 30, 34, 54, 62, 66, 74, 86, 94, 98, 110, 122, 134, 146,
     150, 158, 162, 170, 174, 190, 194, 198, 214, 218, 222, 238, 242, 246,
     266, 270, 274, 290, 294, 298, 314, 318, 322, 338, 342, 346, 350, 378,
     382, 386, 390, 394, 398, 426, 430, 434, 438, 442, 446, 478, 482, 486,
     490, 494, 498, 526, 530, 534, 538, 542, 546, 550, 578, 582, 586, 590,
     594, 598, 626, 630, 634, 638, 642, 646, 678, 682, 686, 690, 694, 698,
     714, 718, 722, 726, 730, 734, 738, 742, 746, 750, 802, 806, 810, 814,
     818, 822, 826, 830, 834, 838, 842, 846, 902, 906, 910, 914, 918, 922,
     926, 930, 934, 938, 942, 946, 950, 1002, 1006, 1010, 1014, 1018, 1022,
     1026, 1030, 1034, 1038, 1042, 1046, 1102, 1106, 1110, 1114, 1118, 1122,
     1126, 1130, 1134, 1138, 1142, 1146, 1150}

\* round(area_pixels * (pixel_size ** 2) / 10000, 3), in thousandths of a
\* hectare, for area_pixels = area8 / 8: area8 * 45 / 4 rounded.
AreaHa(area8) ==
    LET num == (area8 * (pixel_size * pixel_size)) \div 20
        q == num \div 4
        r == num % 4
    IN  IF r < 2 THEN q
        ELSE IF r > 2 THEN q + 1
        ELSE IF area8 \in HaTiesRoundedUp THEN q + 1 ELSE q

\* geo_transform: None, or the GDAL tuple of which _pixel_to_geo reads the
\* origin (entries 0 and 3) and the pixel steps (entries 1 and 5).
NoGeoTransform == [none |-> TRUE, x0 |-> 0, dx |-> 0, y0 |-> 0, dy |-> 0]

\* _pixel_to_geo: [lon, lat] for each (row, col), and the first point again
\* when the ring is not closed.  Points stay doubled.
PixelToGeo(pixel_coords, g) ==
    LET geo_coords == [k \in 1 .. Len(pixel_coords) |->
                          <<2 * g.x0 + pixel_coords[k][2] * g.dx,
                            2 * g.y0 + pixel_coords[k][1] * g.dy>>]
    IN  IF geo_coords # <<>> /\ geo_coords[1] # geo_coords[Len(geo_coords)]
        THEN Append(geo_coords, geo_coords[1])
        ELSE geo_coords

\* Sum of f over the pixels of S, for S within rows 0 .. H - 1 and columns
\* 0 .. W - 1.
SumOver(f, S, H, W) ==
    SumRange([r \in 0 .. (H - 1) |->
                 SumRange([c \in 0 .. (W - 1) |-> IF <<r, c>> \in S THEN f[<<r, c>>] ELSE 0],
                          0, W - 1)],
             0, H - 1)

\* One pass of the loop of vectorize_professional for contour number i
\* (0-based): <<>> when the contour is skipped, else the one polygon.
\* Change values are thousandths; confidence is in hundredths.
ContourPolygon(contour, i, g, rule, ndvi_change, evi_change, H, W) ==
    LET area8 == ContourArea8(contour)
        contour_simplified == ApproximatePolygon(contour, area8)
        coords == IF g.none THEN contour_simplified
                  ELSE PixelToGeo(contour_simplified, g)
        poly_mask == DrawPolygon(contour, rule, H, W)
        cnt == Cardinality(poly_mask)
        sum_ndvi == SumOver(ndvi_change, poly_mask, H, W)
        sum_evi == SumOver(evi_change, poly_mask, H, W)
        \* 0.5 + (avg_ndvi_change + avg_evi_change) / 0.8
        \*   = (400 * cnt + sum_ndvi + sum_evi) / (800 * cnt)
        conf_num == 400 * cnt + sum_ndvi + sum_evi
        confidence == IF cnt > 0
                      THEN IF conf_num >= 800 * cnt THEN 100
                           ELSE RoundHalfEven(conf_num, 8 * cnt)
                      ELSE 70
    IN  IF Len(contour) < 4 THEN <<>>
        ELSE IF Len(contour_simplified) < 3 THEN <<>>
        ELSE << [coordinates |-> coords,
                 id |-> i,
                 area_ha |-> AreaHa(area8),
                 area_pixels |-> area8 \div 8,
                 confidence |-> confidence,
                 ndvi_change |-> IF cnt > 0 THEN RoundHalfEven(sum_ndvi, cnt) ELSE 0,
                 evi_change |-> IF cnt > 0 THEN RoundHalfEven(sum_evi, cnt) ELSE 0,
                 severity |-> IF cnt > 0 /\ sum_ndvi > 300 * cnt
                              THEN "High" ELSE "Moderate"] >>

\* A polygon list left in the order the contours were found.
SortPolygonsSkipped(polygons) == polygons

\* polygons.sort(key=area_ha, reverse=True): a stable sort, largest first;
\* polygons of equal area_ha keep their order.
RECURSIVE SortPolygons(_)
SortPolygons(polygons) ==
    IF polygons = <<>> THEN <<>>
    ELSE LET n == Len(polygons)
             k == CHOOSE i \in 1 .. n :
                      /\ \A j \in 1 .. n : polygons[j].area_ha <= polygons[i].area_ha
                      /\ \A j \in 1 .. (i - 1) : polygons[j].area_ha < polygons[i].area_ha
             rest == [j \in 1 .. (n - 1) |-> IF j < k THEN polygons[j] ELSE polygons[j + 1]]
         IN  <<polygons[k]>> \o SortPolygons(rest)


(***************************************************************************)
(* vectorize_professional called on its own: the mask is a union of two    *)
(* small rectangles on a 5 x 5 raster, the change arrays take one value    *)
(* inside the mask and one outside.                                        *)
(***************************************************************************)
VzShape == <<5, 5>>

Rect(a) == {p \in Pix(VzShape[1], VzShape[2]) :
               /\ a[1] <= p[1] /\ p[1] < a[1] + a[3]
               /\ a[2] <= p[2] /\ p[2] < a[2] + a[4]}

\* <<row, col, height, width>> of the rectangles that fit the raster.
VzRects == {a \in (0 .. VzShape[1] - 1) \X (0 .. VzShape[2] - 1) \X (1 .. 2) \X (1 .. 2) :
               a[1] + a[3] <= VzShape[1] /\ a[2] + a[4] <= VzShape[2]}

VzMasks == {Rect(a) \cup Rect(b) : a \in VzRects, b \in VzRects}
               \cup {{}, Pix(VzShape[1], VzShape[2])}

\* <<ndvi inside, ndvi outside, evi inside, evi outside>>, in thousandths.
VzChanges == {<<500, 0, 500, 0>>, <<-300, 100, -400, 100>>}

GeoTransforms == {NoGeoTransform,
                  [none |-> FALSE, x0 |-> 10, dx |-> 1, y0 |-> 20, dy |-> -1]}

VectorizeStart ==
    /\ parent = <<>> /\ rank = <<>> /\ size = <<>>
    /\ unioned = {} /\ ufCalls = 0
    /\ ufRet = [op |-> "init", x |-> 0, ret |-> 0]
    /\ sd = [pc |-> "unused"]
    /\ gp = [pc |-> "unused"]
    /\ rq = [pc |-> "unused"]
    /\ cc = [pc |-> "unused"]
    /\ ip = [pc |-> "unused"]
    /\ \E M \in VzMasks, ch \in VzChanges, g \in GeoTransforms, rule \in DrawRules :
           vp = [pc |-> "call", H |-> VzShape[1], W |-> VzShape[2],
                 mask |-> M, geo_transform |-> g, draw_rule |-> rule,
                 ndvi_change |-> [p \in Pix(VzShape[1], VzShape[2]) |->
                                     IF p \in M THEN ch[1] ELSE ch[2]],
                 evi_change |-> [p \in Pix(VzShape[1], VzShape[2]) |->
                                    IF p \in M THEN ch[3] ELSE ch[4]],
                 row |-> 0, contours |-> <<>>, i |-> 0, polygons |-> <<>>]

\* contours = measure.find_contours(mask.astype(np.float64), 0.5): one row
\* of squares of the marching-squares scan.
VzFindContoursRow ==
    /\ vp.pc = "call"
    /\ vp.row < vp.H - 1
    /\ vp' = [vp EXCEPT !.row = vp.row + 1,
                        !.contours = AssembleRow(vp.mask, vp.row, vp.W, vp.contours)]
    /\ UNCHANGED <<ufVars, cc, ip, sd, gp, rq>>

\* find_contours returns.
VzContoursFound ==
    /\ vp.pc = "call"
    /\ vp.row >= vp.H - 1
    /\ vp' = [vp EXCEPT !.pc = "loop", !.contours = FoundContours(vp.contours)]
    /\ UNCHANGED <<ufVars, cc, ip, sd, gp, rq>>

\* One pass of the for loop over the contours.
VzContour ==
    /\ vp.pc = "loop"
    /\ vp.i < Len(vp.contours)
    /\ vp' = [vp EXCEPT !.i = vp.i + 1,
                        !.polygons = vp.polygons \o
                            ContourPolygon(vp.contours[vp.i + 1], vp.i, vp.geo_transform,
                                           vp.draw_rule, vp.ndvi_change, vp.evi_change,
                                           vp.H, vp.W)]
    /\ UNCHANGED <<ufVars, cc, ip, sd, gp, rq>>

\* polygons.sort(...); return polygons
VzSortReturn ==
    /\ vp.pc = "loop"
    /\ vp.i = Len(vp.contours)
    /\ vp' = [vp EXCEPT !.pc = "done", !.polygons = SortPolygons(vp.polygons)]
    /\ UNCHANGED <<ufVars, cc, ip, sd, gp, rq>>

VectorizeNext ==
    \/ VzFindContoursRow
    \/ VzContoursFound
    \/ VzContour
    \/ VzSortReturn

SpecVectorize == VectorizeStart /\ [][VectorizeNext]_vars


(***************************************************************************)
(* detect_forest_loss from stage 3 on, given the four index arrays         *)
(***************************************************************************)
\* The locals of a call before any stage has run.
IpBlank ==
    [pc |-> "unused", H |-> 0, W |-> 0,
     before_image |-> <<>>, after_image |-> <<>>, empty_rule |-> "raises",
     before_nir |-> <<>>, before_red |-> <<>>,
     after_nir |-> <<>>, after_red |-> <<>>,
     ndvi_before |-> <<>>, ndvi_after |-> <<>>,
     evi_before |-> <<>>, evi_after |-> <<>>,
     ndvi_change |-> <<>>, evi_change |-> <<>>, valid_mask |-> <<>>,
     forest_mask |-> <<>>, deforestation_mask |-> <<>>,
     defor_mask |-> <<>>,
     smoothed |-> <<>>, defor_mask_smooth |-> <<>>,
     canny_smoothed |-> <<>>, isobel |-> <<>>, jsobel |-> <<>>, magnitude |-> <<>>,
     edges |-> <<>>, final_mask |-> <<>>,
     geo_transform |-> NoGeoTransform, draw_rule |-> "crossing",
     polygons |-> <<>>, total_pixels |-> 0, total_area_ha |-> 0, num_features |-> 0]

\* Index values of one pixel: <<NDVI before, NDVI after, EVI before, EVI after>>.
\* EVI follows NDVI as both come from the same two bands: EVI = 5v / (7 - 5v),
\* clipped to 1.
PixelKinds ==
    { <<600, 600, 750, 750>>,     \* forest, unchanged
      <<600, 100, 750, 77>>,      \* forest, strong loss in both indices
      <<600, 500, 750, 556>>,     \* forest, loss seen by EVI only
      <<900, 750, 1000, 1000>>,   \* forest, loss seen by NDVI only (EVI clipped)
      <<200, 0, 167, 0>>,         \* not forest, loss
      <<310, 400, 284, 400>> }    \* forest by NDVI only, gain

\* A raster of H x W pixels of the given kinds, at the entry of stage 3.
IpFromKinds(H, W, kind) ==
    [IpBlank EXCEPT
        !.pc = "stage3", !.H = H, !.W = W,
        !.ndvi_before = [p \in Pix(H, W) |-> kind[p][1]],
        !.ndvi_after  = [p \in Pix(H, W) |-> kind[p][2]],
        !.evi_before  = [p \in Pix(H, W) |-> kind[p][3]],
        !.evi_after   = [p \in Pix(H, W) |-> kind[p][4]]]

\* All 2 x 2 rasters over the pixel kinds.
SmallRasters == {IpFromKinds(2, 2, kind) : kind \in [Pix(2, 2) -> PixelKinds]}

\* The 10 x 10 raster whose pixels in rows 3-6, cols 3-6 have NDVI 0.6
\* before and 0.1 after, every other pixel NDVI 0.6 in both snapshots.
InBlock(p, lo, hi) == lo <= p[1] /\ p[1] <= hi /\ lo <= p[2] /\ p[2] <= hi

BlockScenario ==
    IpFromKinds(10, 10, [p \in Pix(10, 10) |->
                            IF InBlock(p, 3, 6) THEN <<600, 100, 750, 77>>
                            ELSE <<600, 600, 750, 750>>])

\* A 14 x 14 raster of forest with NDVI 0.6 before.  Rows 4-9, cols 4-9 drop
\* to 0.45; the rest moves by 0.04 up or down in a checkerboard, so the
\* median absolute deviation of the change is not zero.
NoisyScenario ==
    IpFromKinds(14, 14, [p \in Pix(14, 14) |->
                            IF InBlock(p, 4, 9) THEN <<600, 450, 750, 474>>
                            ELSE IF (p[1] + p[2]) % 2 = 0 THEN <<600, 640, 750, 842>>
                            ELSE <<600, 560, 750, 667>>])

StagesStart ==
    /\ parent = <<>> /\ rank = <<>> /\ size = <<>>
    /\ unioned = {} /\ ufCalls = 0
    /\ ufRet = [op |-> "init", x |-> 0, ret |-> 0]
    /\ sd = [pc |-> "unused"]
    /\ gp = [pc |-> "unused"]
    /\ rq = [pc |-> "unused"]
    /\ cc = [pc |-> "unused"]
    /\ vp = [pc |-> "unused"]
    /\ ip \in SmallRasters \cup {BlockScenario, NoisyScenario}

IpPix == Pix(ip.H, ip.W)

\* ndvi_change, ndvi_valid = multi_temporal_filter(ndvi_before, ndvi_after)
\* evi_change, evi_valid = multi_temporal_filter(evi_before, evi_after)
\* valid_mask = ndvi_valid & evi_valid
Stage3 ==
    /\ ip.pc = "stage3"
    /\ LET n == MultiTemporalFilter(ip.ndvi_before, ip.ndvi_after, IpPix)
           e == MultiTemporalFilter(ip.evi_before, ip.evi_after, IpPix)
       IN  ip' = [ip EXCEPT !.pc = "stage4",
                            !.ndvi_change = n.change,
                            !.evi_change = e.change,
                            !.valid_mask = [p \in IpPix |-> n.valid[p] /\ e.valid[p]]]
    /\ UNCHANGED <<ufVars, cc, vp, sd, gp, rq>>

Stage4 ==
    /\ ip.pc = "stage4"
    /\ LET forest == ForestMask(ip.ndvi_before, ip.evi_before, IpPix)
       IN  ip' = [ip EXCEPT !.pc = "stage5",
                            !.forest_mask = forest,
                            !.deforestation_mask =
                                DeforestationMask(forest, ip.ndvi_change, ip.evi_change,
                                                  ip.valid_mask, IpPix)]
    /\ UNCHANGED <<ufVars, cc, vp, sd, gp, rq>>

\* Stage 5, step 1: the median filter on the initial mask.
Stage5Median ==
    /\ ip.pc = "stage5"
    /\ ip' = [ip EXCEPT !.pc = "stage5_2",
                        !.defor_mask = MaskOf(MedianFilter3(TrueSet(ip.deforestation_mask, IpPix),
                                                            ip.H, ip.W), IpPix)]
    /\ UNCHANGED <<ufVars, cc, vp, sd, gp, rq>>

\* Stage 5, step 2: remove small objects.
Stage5RemoveSmall ==
    /\ ip.pc = "stage5_2"
    /\ ip' = [ip EXCEPT !.pc = "stage5_3",
                        !.defor_mask = MaskOf(Step2RemoveSmall(TrueSet(ip.defor_mask, IpPix)), IpPix)]
    /\ UNCHANGED <<ufVars, cc, vp, sd, gp, rq>>

\* Step 3 reading the mask of stage 4 instead of the mask step 2 left.
Stage5ClosingFromInitial ==
    /\ ip.pc = "stage5_3"
    /\ ip' = [ip EXCEPT !.pc = "stage5_4",
                        !.defor_mask = MaskOf(BinaryClosing(TrueSet(ip.deforestation_mask, IpPix),
                                                            Disk(2), ip.H, ip.W), IpPix)]
    /\ UNCHANGED <<ufVars, cc, vp, sd, gp, rq>>

\* Stage 5, step 3: binary closing with disk(2).
Stage5Closing ==
    /\ ip.pc = "stage5_3"
    /\ ip' = [ip EXCEPT !.pc = "stage5_4",
                        !.defor_mask = MaskOf(BinaryClosing(TrueSet(ip.defor_mask, IpPix),
                                                            Disk(2), ip.H, ip.W), IpPix)]
    /\ UNCHANGED <<ufVars, cc, vp, sd, gp, rq>>

\* Stage 5, step 4: remove small holes.
Stage5Holes ==
    /\ ip.pc = "stage5_4"
    /\ ip' = [ip EXCEPT !.pc = "stage5_5",
                        !.defor_mask = MaskOf(RemoveSmallHoles(TrueSet(ip.defor_mask, IpPix),
                                                               hole_area_threshold, ip.H, ip.W), IpPix)]
    /\ UNCHANGED <<ufVars, cc, vp, sd, gp, rq>>

\* Stage 5, step 5: binary opening with disk(2).
Stage5Opening ==
    /\ ip.pc = "stage5_5"
    /\ ip' = [ip EXCEPT !.pc = "stage6",
                        !.defor_mask = MaskOf(BinaryOpening(TrueSet(ip.defor_mask, IpPix),
                                                            Disk(2), ip.H, ip.W), IpPix)]
    /\ UNCHANGED <<ufVars, cc, vp, sd, gp, rq>>

\* Stage 6: smoothing at two scales and the new threshold.
Stage6 ==
    /\ ip.pc = "stage6"
    /\ LET sm == Smoothed(TrueSet(ip.defor_mask, IpPix), ip.H, ip.W)
       IN  ip' = [ip EXCEPT !.pc = "stage7",
                            !.smoothed = sm,
                            !.defor_mask_smooth = [p \in IpPix |-> sm[p] > smooth_threshold]]
    /\ UNCHANGED <<ufVars, cc, vp, sd, gp, rq>>

\* Stage 7: edges = feature.canny(smoothed, sigma=1.5, low_threshold=0.2,
\* high_threshold=0.6), in its three steps.  First the Gaussian.
Stage7CannySmooth ==
    /\ ip.pc = "stage7"
    /\ ip' = [ip EXCEPT !.pc = "stage7_sobel",
                        !.canny_smoothed = CannySmoothed(ip.smoothed, ip.H, ip.W)]
    /\ UNCHANGED <<ufVars, cc, vp, sd, gp, rq>>

\* canny: the two Sobel gradients.
Stage7CannySobel ==
    /\ ip.pc = "stage7_sobel"
    /\ ip' = [ip EXCEPT !.pc = "stage7_edges",
                        !.isobel = Sobel(ip.canny_smoothed, 0, ip.H, ip.W),
                        !.jsobel = Sobel(ip.canny_smoothed, 1, ip.H, ip.W)]
    /\ UNCHANGED <<ufVars, cc, vp, sd, gp, rq>>

\* canny: magnitude, non-maximum suppression and hysteresis.
Stage7CannyEdges ==
    /\ ip.pc = "stage7_edges"
    /\ LET magnitude == Magnitude(ip.isobel, ip.jsobel, ip.H, ip.W)
       IN  ip' = [ip EXCEPT !.pc = "stage7_2",
                            !.magnitude = magnitude,
                            !.edges = MaskOf(CannyEdges(ip.isobel, ip.jsobel, magnitude,
                                                        ip.H, ip.W), IpPix)]
    /\ UNCHANGED <<ufVars, cc, vp, sd, gp, rq>>

\* Stage 7: the edges dilated, OR-ed into the smoothed mask, and closed.
Stage7Combine ==
    /\ ip.pc = "stage7_2"
    /\ ip' = [ip EXCEPT !.pc = "stage8",
                        !.final_mask = MaskOf(FinalMask(TrueSet(ip.defor_mask_smooth, IpPix),
                                                        TrueSet(ip.edges, IpPix), ip.H, ip.W), IpPix)]
    /\ UNCHANGED <<ufVars, cc, vp, sd, gp, rq>>

\* Stage 8: polygons = vectorize_professional(final_mask, geo_transform,
\* ndvi_change, evi_change).  geo_transform, an argument of the call, is
\* first read here.
Stage8Call ==
    /\ ip.pc = "stage8"
    /\ \E g \in GeoTransforms, rule \in DrawRules :
           /\ ip' = [ip EXCEPT !.pc = "stage8_wait",
                               !.geo_transform = g,
                               !.draw_rule = rule]
           /\ vp' = [pc |-> "call", H |-> ip.H, W |-> ip.W,
                     mask |-> TrueSet(ip.final_mask, IpPix),
                     geo_transform |-> g, draw_rule |-> rule,
                     ndvi_change |-> ip.ndvi_change,
                     evi_change |-> ip.evi_change,
                     row |-> 0, contours |-> <<>>, i |-> 0, polygons |-> <<>>]
    /\ UNCHANGED <<ufVars, cc, sd, gp, rq>>

\* Stage 8, the return of vectorize_professional: its list is bound to
\* polygons.
Stage8Return ==
    /\ ip.pc = "stage8_wait"
    /\ vp.pc = "done"
    /\ ip' = [ip EXCEPT !.pc = "stage9", !.polygons = vp.polygons]
    /\ vp' = [pc |-> "unused"]
    /\ UNCHANGED <<ufVars, cc, sd, gp, rq>>

\* Stage 9: total_pixels = np.sum(final_mask),
\* total_area_ha = total_pixels * pixel_size ** 2 / 10000 (kept in hundredths
\* of a hectare), num_features = len(polygons); the dict is returned.
Stage9 ==
    /\ ip.pc = "stage9"
    /\ LET total_pixels == Cardinality(TrueSet(ip.final_mask, IpPix))
       IN  ip' = [ip EXCEPT !.pc = "done",
                            !.total_pixels = total_pixels,
                            !.total_area_ha = (total_pixels * (pixel_size * pixel_size)) \div 100,
                            !.num_features = Len(ip.polygons)]
    /\ UNCHANGED <<ufVars, cc, vp, sd, gp, rq>>

StagesNext ==
    \/ Stage3
    \/ Stage4
    \/ Stage5Median
    \/ Stage5RemoveSmall
    \/ Stage5Closing
    \/ Stage5Holes
    \/ Stage5Opening
    \/ Stage6
    \/ Stage7CannySmooth
    \/ Stage7CannySobel
    \/ Stage7CannyEdges
    \/ Stage7Combine
    \/ Stage8Call
    \/ VzFindContoursRow
    \/ VzContoursFound
    \/ VzContour
    \/ VzSortReturn
    \/ Stage8Return
    \/ Stage9

SpecStages == StagesStart /\ [][StagesNext]_vars

(***************************************************************************)
(* detect_forest_loss(before_image, after_image, geo_transform) from its   *)
(* entry.  An image is [ch0, ch1]: channel 0 is read as NIR, channel 1 as  *)
(* Red.                                                                    *)
(***************************************************************************)
\* A 2 x 2 band from its four digital numbers in row-major order.
Band2x2(t) == [p \in Pix(2, 2) |-> t[2 * p[1] + p[2] + 1]]

\* The 2 x 2 bands fed to the pipeline: all zero, constant, and three with
\* distinct values.
SmallBands == {Band2x2(t) : t \in {<<0, 0, 0, 0>>, <<5, 5, 5, 5>>, <<10, 20, 30, 40>>,
                                   <<40, 10, 20, 5>>, <<4, 30, 0, 12>>}}

SmallImages == {[ch0 |-> a, ch1 |-> b] : a \in SmallBands, b \in SmallBands}

\* A 10 x 10 image with varied digital numbers in both channels.
LargeImage ==
    [ch0 |-> [p \in Pix(10, 10) |-> 20 + 5 * ((3 * p[1] + 5 * p[2]) % 7)],
     ch1 |-> [p \in Pix(10, 10) |-> 5 + 3 * ((p[1] + 2 * p[2]) % 5)]]

\* A 14 x 14 band of digital numbers.  Row 0 holds six numbers 10 (the dark
\* value), three 12 and five 112, which fix the 1st and 99th percentiles;
\* below it the number at p is 12 + level[p], so that the band normalises to
\* level[p] / 100.
SceneBand(level) ==
    [p \in Pix(14, 14) |-> IF p[1] = 0
                           THEN (IF p[2] < 6 THEN 10 ELSE IF p[2] < 9 THEN 12 ELSE 112)
                           ELSE 12 + level[p]]

\* A 14 x 14 forest scene (NIR 0.80, Red 0.20 after normalisation) ...
SceneBefore ==
    [ch0 |-> SceneBand([p \in Pix(14, 14) |-> 80]),
     ch1 |-> SceneBand([p \in Pix(14, 14) |-> 20])]

\* ... and the scene later: rows and columns 4..9 have lost vegetation
\* (NIR 0.55, Red 0.21), the rest alternates between slightly greener and
\* slightly less green.
SceneAfter ==
    [ch0 |-> SceneBand([p \in Pix(14, 14) |->
                           IF InBlock(p, 4, 9) THEN 55
                           ELSE IF (p[1] + p[2]) % 2 = 0 THEN 82 ELSE 78]),
     ch1 |-> SceneBand([p \in Pix(14, 14) |->
                           IF InBlock(p, 4, 9) THEN 21
                           ELSE IF (p[1] + p[2]) % 2 = 0 THEN 18 ELSE 22])]

RasterCall(H, W, before, after, rule) ==
    [IpBlank EXCEPT !.pc = "stage1", !.H = H, !.W = W,
                    !.before_image = before, !.after_image = after,
                    !.empty_rule = rule]

RasterStart ==
    /\ parent = <<>> /\ rank = <<>> /\ size = <<>>
    /\ unioned = {} /\ ufCalls = 0
    /\ ufRet = [op |-> "init", x |-> 0, ret |-> 0]
    /\ sd = [pc |-> "unused"]
    /\ gp = [pc |-> "unused"]
    /\ rq = [pc |-> "unused"]
    /\ cc = [pc |-> "unused"]
    /\ vp = [pc |-> "unused"]
    /\ \E rule \in EmptyPercentileRules :
           \/ \E before \in SmallImages, after \in SmallImages :
                  ip = RasterCall(2, 2, before, after, rule)
           \/ ip = RasterCall(10, 10, LargeImage, LargeImage, rule)
           \/ ip = RasterCall(14, 14, SceneBefore, SceneAfter, rule)

\* Stage 1: atmospheric_correction of the four bands, then normalize_band of
\* the four results.  An exception in any of them ends the call.
Stage1 ==
    /\ ip.pc = "stage1"
    /\ LET rule == ip.empty_rule
           c1 == AtmosphericCorrection(ip.before_image.ch0, IpPix, rule)
           c2 == AtmosphericCorrection(ip.before_image.ch1, IpPix, rule)
           c3 == AtmosphericCorrection(ip.after_image.ch0, IpPix, rule)
           c4 == AtmosphericCorrection(ip.after_image.ch1, IpPix, rule)
           n1 == NormalizeBand(c1.band, IpPix, rule)
           n2 == NormalizeBand(c2.band, IpPix, rule)
           n3 == NormalizeBand(c3.band, IpPix, rule)
           n4 == NormalizeBand(c4.band, IpPix, rule)
       IN  IF c1.raised \/ c2.raised \/ c3.raised \/ c4.raised
           THEN ip' = [ip EXCEPT !.pc = "raised"]
           ELSE IF n1.raised \/ n2.raised \/ n3.raised \/ n4.raised
           THEN ip' = [ip EXCEPT !.pc = "raised"]
           ELSE ip' = [ip EXCEPT !.pc = "stage2",
                                 !.before_nir = n1.band, !.before_red = n2.band,
                                 !.after_nir = n3.band, !.after_red = n4.band]
    /\ UNCHANGED <<ufVars, cc, vp, sd, gp, rq>>

\* Stage 2: NDVI and EVI of both snapshots.
Stage2 ==
    /\ ip.pc = "stage2"
    /\ ip' = [ip EXCEPT !.pc = "stage3",
                        !.ndvi_before = ComputeNdvi(ip.before_nir, ip.before_red, IpPix),
                        !.ndvi_after = ComputeNdvi(ip.after_nir, ip.after_red, IpPix),
                        !.evi_before = ComputeEvi(ip.before_nir, ip.before_red, IpPix),
                        !.evi_after = ComputeEvi(ip.after_nir, ip.after_red, IpPix)]
    /\ UNCHANGED <<ufVars, cc, vp, sd, gp, rq>>

RasterNext ==
    \/ Stage1
    \/ Stage2
    \/ Stage3
    \/ Stage4
    \/ Stage5Median
    \/ Stage5RemoveSmall
    \/ Stage5Closing
    \/ Stage5Holes
    \/ Stage5Opening
    \/ Stage6
    \/ Stage7CannySmooth
    \/ Stage7CannySobel
    \/ Stage7CannyEdges
    \/ Stage7Combine
    \/ Stage8Call
    \/ VzFindContoursRow
    \/ VzContoursFound
    \/ VzContour
    \/ VzSortReturn
    \/ Stage8Return
    \/ Stage9

SpecRaster == RasterStart /\ [][RasterNext]_vars


(***************************************************************************)
(* Claims on mask construction                                             *)
(***************************************************************************)
\* Stage 4 has run.
MaskBuilt == ip.pc \notin {"unused", "stage3", "stage4"}

\* C7: for every pixel the initial deforestation mask is true exactly when
\* forest AND (NDVI change > change threshold OR EVI change > EVI change
\* threshold) AND valid, with forest = NDVI(before) > forest threshold OR
\* EVI(before) > 0.3 and valid the validity mask of stage 3.
C7_MaskIsForestLossValid ==
    MaskBuilt =>
        \A p \in IpPix :
            ip.deforestation_mask[p] <=>
                (/\ (ip.ndvi_before[p] > forest_ndvi_threshold
                        \/ ip.evi_before[p] > forest_evi_threshold)
                 /\ (ip.ndvi_change[p] > min_change_threshold
                        \/ ip.evi_change[p] > evi_change_threshold)
                 /\ ip.valid_mask[p])

\* After stage 4 the raster holds a forest pixel that lost vegetation by EVI
\* alone and is masked, and a forest pixel with a loss that is not valid and
\* is not masked.
C7_Witness ==
    /\ MaskBuilt
    /\ \E p \in IpPix :
          /\ ip.deforestation_mask[p]
          /\ ip.ndvi_change[p] <= min_change_threshold
          /\ ip.evi_change[p] > evi_change_threshold
    /\ \E p \in IpPix :
          /\ ~ip.deforestation_mask[p] /\ ~ip.valid_mask[p]
          /\ ip.forest_mask[p] /\ ip.evi_change[p] > evi_change_threshold

(***************************************************************************)
(* detect_forest_loss: the two scenarios                                   *)
(***************************************************************************)
\* Stage k of the call has run (and the call has not raised).
PastStage3 == ip.pc \notin {"unused", "raised", "stage1", "stage2", "stage3"}
PastStage4 == PastStage3 /\ ip.pc # "stage4"
PastStage5 == ip.pc \in {"stage6", "stage7", "stage7_sobel", "stage7_edges", "stage7_2",
                         "stage8", "stage8_wait", "stage9", "done"}
PastStage7 == ip.pc \in {"stage8", "stage8_wait", "stage9", "done"}

\* The call got two identical snapshots, and stage 1 found a positive value
\* in every band it took a percentile of.
IdenticalSnapshots ==
    /\ ip.pc \notin {"unused", "raised", "stage1"}
    /\ ip.before_image # <<>>
    /\ ip.before_image = ip.after_image
    /\ \A p \in IpPix : ip.before_nir[p] # NaN /\ ip.before_red[p] # NaN

\* C8: when the before and after snapshots are identical, the NDVI and EVI
\* change arrays are all zero, the deforestation mask is all false both as
\* first built and as returned, the polygon list is empty, total_area_ha is 0
\* and num_features is 0.  (Stated for snapshots on which no percentile is
\* taken of an empty selection, so that the call does return.)
C8_IdenticalSnapshots ==
    IdenticalSnapshots =>
        /\ PastStage3 => \A p \in IpPix : ip.ndvi_change[p] = 0 /\ ip.evi_change[p] = 0
        /\ PastStage4 => \A p \in IpPix : ~ip.deforestation_mask[p]
        /\ PastStage7 => \A p \in IpPix : ~ip.final_mask[p]
        /\ ip.pc \in {"stage9", "done"} => ip.polygons = <<>>
        /\ ip.pc = "done" => ip.total_area_ha = 0 /\ ip.num_features = 0

\* The call runs on the 10 x 10 raster of BlockScenario.
InBlockScenario ==
    /\ ip.pc # "unused"
    /\ ip.H = 10 /\ ip.W = 10
    /\ ip.ndvi_before = BlockScenario.ndvi_before
    /\ ip.ndvi_after = BlockScenario.ndvi_after

\* C9: on the 10 x 10 raster whose rows 3-6, cols 3-6 go from NDVI 0.6 to 0.1
\* and whose other pixels stay at 0.6, the changed pixels pass the validity
\* filter and survive the morphological stages, and exactly one polygon is
\* returned, on the 4 x 4 block, with confidence > 0.5.
C9_BlockScenario ==
    InBlockScenario =>
        /\ PastStage3 => \A p \in IpPix : InBlock(p, 3, 6) => ip.valid_mask[p]
        /\ PastStage5 => \E p \in IpPix : InBlock(p, 3, 6) /\ ip.defor_mask[p]
        /\ ip.pc \in {"stage9", "done"} =>
               /\ Len(ip.polygons) = 1
               /\ ip.polygons[1].confidence > 50
               /\ ip.geo_transform.none =>
                      \A k \in 1 .. Len(ip.polygons[1].coordinates) :
                          InBlock(ip.polygons[1].coordinates[k], 4, 14)

(***************************************************************************)
(* vectorize_professional: order of the returned list                      *)
(***************************************************************************)
SortedByAreaDesc(polygons) ==
    \A k \in 1 .. (Len(polygons) - 1) : polygons[k].area_ha >= polygons[k + 1].area_ha

\* C10: the polygon list returned by vectorize_professional, and the one
\* detect_forest_loss returns, is ordered by non-increasing area_ha: each
\* polygon's area_ha is >= that of the polygon after it.
C10_PolygonsSortedByArea ==
    /\ vp.pc = "done" => SortedByAreaDesc(vp.polygons)
    /\ ip.pc \in {"stage9", "done"} => SortedByAreaDesc(ip.polygons)

\* vectorize_professional has returned two polygons of different area, the
\* larger one first although its contour was found later.
C10_Witness ==
    /\ vp.pc = "done"
    /\ Len(vp.polygons) >= 2
    /\ vp.polygons[1].area_ha > vp.polygons[2].area_ha
    /\ vp.polygons[1].id > vp.polygons[2].id

(***************************************************************************)
(* vectorize_professional: coordinate rings                                *)
(***************************************************************************)
RingClosed(coordinates) ==
    coordinates # <<>> /\ coordinates[1] = coordinates[Len(coordinates)]

\* C11: every polygon vectorize_professional returns has a closed coordinate
\* ring, its first coordinate pair equal to its last, for every mask and
\* every geo_transform, None and border-touching regions included.
C11_RingsClosed ==
    vp.pc = "done" =>
        \A k \in 1 .. Len(vp.polygons) : RingClosed(vp.polygons[k].coordinates)

(***************************************************************************)
(* vectorize_professional: confidence                                      *)
(***************************************************************************)
\* Confidence is kept in hundredths: [0, 1] is 0 .. 100.
ConfidenceInUnitRange(polygons) ==
    \A k \in 1 .. Len(polygons) :
        polygons[k].confidence >= 0 /\ polygons[k].confidence <= 100

\* C12: every polygon the raster pipeline returns has a confidence in
\* [0, 1], for all masks and all change arrays with values in [-2, 2],
\* regions of negative mean change included.
C12_ConfidenceInUnitRange ==
    /\ vp.pc = "done" => ConfidenceInUnitRange(vp.polygons)
    /\ ip.pc \in {"stage9", "done"} => ConfidenceInUnitRange(ip.polygons)

(***************************************************************************)
(* SpatialChangeDetector: match_temporal_changes,                          *)
(* calculate_change_confidence, filter_false_positives.                    *)
(* Coordinates, neighbor_distance and max_distance are whole multiples of  *)
(* 0.0005 degree and are kept in that unit; a point array is a sequence of *)
(* <<lon, lat>> pairs.  Confidence values are kept in hundredths.          *)
(***************************************************************************)
\* Squared distance from q to its nearest point of a non-empty array.
NearestDistSq(points, q) ==
    LET ds == {DistSq(q, points[k]) : k \in 1 .. Len(points)}
    IN  CHOOSE d \in ds : \A e \in ds : d <= e

\* KDTreeSpatial.query_nearest(query_points, k=1) on the tree over points:
\* the index arrays (0-based) it may return.  Among several points at the
\* same least distance the tree decides which one is reported.
QueryNearest(points, query_points) ==
    {indices \in [1 .. Len(query_points) -> Elems(Len(points))] :
        \A i \in 1 .. Len(query_points) :
            DistSq(query_points[i], points[indices[i] + 1])
                = NearestDistSq(points, query_points[i])}

\* Sum of f[1] .. f[Len(f)].
SeqSum(f) == SumRange(f, 1, Len(f))

CeilDiv(a, b) == (a + b - 1) \div b

\* Bounds [lo, hi] on 100000 * compactness_score.  With sx, sy the sums of
\* the coordinates, the distance of point k from the centroid is
\* sqrt((n*x - sx)^2 + (n*y - sy)^2) / n; the square roots are bounded to a
\* hundredth, and avg_distance * 100 is a twentieth of the average taken in
\* units of 0.0005 degree.
CompactnessBounds(cluster_pixels) ==
    LET n == Len(cluster_pixels)
        sx == SeqSum([k \in 1 .. n |-> cluster_pixels[k][1]])
        sy == SeqSum([k \in 1 .. n |-> cluster_pixels[k][2]])
        d2 == [k \in 1 .. n |->
                  10000 * ((n * cluster_pixels[k][1] - sx) * (n * cluster_pixels[k][1] - sx)
                           + (n * cluster_pixels[k][2] - sy) * (n * cluster_pixels[k][2] - sy))]
        root == [k \in 1 .. n |-> Isqrt(d2[k])]
        s_lo == SeqSum(root)
        s_hi == SeqSum([k \in 1 .. n |->
                           IF root[k] * root[k] = d2[k] THEN root[k] ELSE root[k] + 1])
        avg_lo == s_lo \div (n * n)
        avg_hi == CeilDiv(s_hi, n * n)
    IN  IF n > 1
        THEN <<80000000 \div (2000 + avg_hi), CeilDiv(80000000, 2000 + avg_lo)>>
        ELSE <<40000, 40000>>

\* 100000 * 0.3 * persistence_score as bounds: the share of cluster points
\* whose nearest reference point is closer than neighbor_distance, or 0.8
\* without reference points.
PersistenceBounds(cluster_pixels, reference_pixels, neighbor_distance) ==
    LET n == Len(cluster_pixels)
        cnt == Cardinality({k \in 1 .. n :
                   NearestDistSq(reference_pixels, cluster_pixels[k])
                       < neighbor_distance * neighbor_distance})
    IN  IF Len(reference_pixels) > 0
        THEN <<(30000 * cnt) \div n, CeilDiv(30000 * cnt, n)>>
        ELSE <<24000, 24000>>

\* The values round(confidence, 2) may take, in hundredths, for
\* 100000 * confidence within [lo, hi]: a value exactly half way between two
\* hundredths goes to either, as the binary float decides.
RoundedWithin(lo, hi) == CeilDiv(lo - 500, 1000) .. ((hi + 500) \div 1000)

\* The combination without the early return for an empty cluster and without
\* reference points: size 0, compactness 1.0, persistence 0.8.
ChangeConfidenceEmptyUnchecked(cluster_pixels, reference_pixels, neighbor_distance) ==
    LET n == Len(cluster_pixels)
        size_score == 300 * (IF n < 100 THEN n ELSE 100)
        compactness == CompactnessBounds(cluster_pixels)
        persistence == IF n = 0 THEN <<24000, 24000>>
                       ELSE PersistenceBounds(cluster_pixels, reference_pixels,
                                              neighbor_distance)
    IN  RoundedWithin(size_score + compactness[1] + persistence[1],
                      size_score + compactness[2] + persistence[2])

\* A combination whose weights are 1, 4/3 and 1 instead of 0.3, 0.4 and 0.3.
ChangeConfidenceUnweighted(cluster_pixels, reference_pixels, neighbor_distance) ==
    LET n == Len(cluster_pixels)
        size_score == 300 * (IF n < 100 THEN n ELSE 100)
        compactness == CompactnessBounds(cluster_pixels)
        persistence == PersistenceBounds(cluster_pixels, reference_pixels,
                                         neighbor_distance)
    IN  IF n = 0 THEN {0}
        ELSE RoundedWithin((10 * (size_score + compactness[1] + persistence[1])) \div 3,
                           CeilDiv(10 * (size_score + compactness[2] + persistence[2]), 3))

\* calculate_change_confidence(cluster_pixels, reference_pixels): the values
\* it may return, in hundredths.
ChangeConfidence(cluster_pixels, reference_pixels, neighbor_distance) ==
    LET n == Len(cluster_pixels)
        size_score == 300 * (IF n < 100 THEN n ELSE 100)
        compactness == CompactnessBounds(cluster_pixels)
        persistence == PersistenceBounds(cluster_pixels, reference_pixels,
                                         neighbor_distance)
    IN  IF n = 0 THEN {0}
        ELSE RoundedWithin(size_score + compactness[1] + persistence[1],
                           size_score + compactness[2] + persistence[2])

\* A confidence threshold that lets 0.5 itself fall.
FilterKeepsAbove(confidence) == confidence > 50

\* if confidence >= 0.5
FilterKeeps(confidence) == confidence >= 50

\* A distance test that leaves out a pair exactly max_distance apart.
MatchAcceptsStrict(dist2, max_distance) == dist2 < max_distance * max_distance

\* if dist <= max_distance, on the squared distance
MatchAccepts(dist2, max_distance) == dist2 <= max_distance * max_distance

\* Point arrays of 0 .. n points.
PointArrays(n) == UNION {[1 .. k -> DetPositions] : k \in 0 .. n}

\* A cluster of 100 points, half at <<0, 0>> and half at <<1, 0>>.
LargeCluster == [k \in 1 .. 100 |-> IF k % 2 = 0 THEN <<0, 0>> ELSE <<1, 0>>]

\* The clusters handed to filter_false_positives: empty, one point, a tight
\* pair, two wide pairs, a wide triple and the cluster of 100 points.
DetClusters ==
    {<<>>, << <<0, 0>> >>, << <<0, 0>>, <<1, 0>> >>, << <<0, 0>>, <<6, 0>> >>,
     << <<0, 0>>, <<9, 12>> >>, << <<0, 0>>, <<0, 2>>, <<9, 12>> >>, LargeCluster}

ConfidenceCall ==
    \E cluster_pixels \in PointArrays(MaxDetPts) \cup DetClusters,
       reference_pixels \in PointArrays(MaxDetPts),
       r \in NeighborDistances :
        sd = [pc |-> "conf_call", cluster_pixels |-> cluster_pixels,
              reference_pixels |-> reference_pixels, neighbor_distance |-> r,
              confidence |-> 0]

\* calculate_change_confidence runs and returns.
ConfidenceReturn ==
    /\ sd.pc = "conf_call"
    /\ \E c \in ChangeConfidence(sd.cluster_pixels, sd.reference_pixels,
                                  sd.neighbor_distance) :
           sd' = [sd EXCEPT !.pc = "conf_done", !.confidence = c]
    /\ UNCHANGED <<ufVars, cc, ip, vp, gp, rq>>

MaxClusters == 2  \* clusters in the list handed to filter_false_positives

\* reference_data: None, or a point array (empty, one point, two points).
ReferenceData ==
    {[none |-> TRUE, pixels |-> <<>>]}
        \cup {[none |-> FALSE, pixels |-> a] :
                  a \in {<<>>, << <<0, 0>> >>, << <<1, 0>>, <<9, 12>> >>}}

FilterCall ==
    \E n \in 0 .. MaxClusters :
    \E clusters \in [1 .. n -> DetClusters] :
    \E reference_data \in ReferenceData :
    \E r \in NeighborDistances :
        sd = [pc |-> "filter_loop", clusters |-> clusters,
              reference_data |-> reference_data, neighbor_distance |-> r,
              cluster_ids |-> [k \in 1 .. n |-> k],
              k |-> 0, confidences |-> <<>>, filtered |-> <<>>,
              filtered_ids |-> <<>>]

\* One pass of the loop of filter_false_positives: the confidence of the
\* next cluster (against np.array([]) when reference_data is None), and the
\* pair kept when it is at least 0.5.  confidences records the value of
\* the local confidence in each pass.  The arrays of the input list are
\* objects numbered cluster_ids; the tuple appended holds the object bound
\* to cluster, whose number goes to filtered_ids.
FilterStep ==
    /\ sd.pc = "filter_loop"
    /\ sd.k < Len(sd.clusters)
    /\ LET cluster == sd.clusters[sd.k + 1]
           reference == IF sd.reference_data.none THEN <<>>
                        ELSE sd.reference_data.pixels
       IN  \E confidence \in ChangeConfidence(cluster, reference, sd.neighbor_distance) :
               sd' = [sd EXCEPT !.k = sd.k + 1,
                                !.confidences = Append(@, confidence),
                                !.filtered = IF FilterKeeps(confidence)
                                             THEN Append(@, <<cluster, confidence>>)
                                             ELSE @,
                                !.filtered_ids = IF FilterKeeps(confidence)
                                                 THEN Append(@, sd.cluster_ids[sd.k + 1])
                                                 ELSE @]
    /\ UNCHANGED <<ufVars, cc, ip, vp, gp, rq>>

\* return filtered
FilterReturn ==
    /\ sd.pc = "filter_loop"
    /\ sd.k = Len(sd.clusters)
    /\ sd' = [sd EXCEPT !.pc = "filter_done"]
    /\ UNCHANGED <<ufVars, cc, ip, vp, gp, rq>>

MatchCall ==
    \E t1_pixels \in PointArrays(MaxDetPts), t2_pixels \in PointArrays(MaxDetPts),
       max_distance \in MaxDistances :
        sd = [pc |-> "match_call", t1_pixels |-> t1_pixels, t2_pixels |-> t2_pixels,
              max_distance |-> max_distance, indices |-> <<>>, i |-> 0,
              matches |-> <<>>]

\* len(t1_pixels) == 0 or len(t2_pixels) == 0: return []
MatchEmpty ==
    /\ sd.pc = "match_call"
    /\ Len(sd.t1_pixels) = 0 \/ Len(sd.t2_pixels) = 0
    /\ sd' = [sd EXCEPT !.pc = "match_done", !.matches = <<>>]
    /\ UNCHANGED <<ufVars, cc, ip, vp, gp, rq>>

\* kdtree = KDTreeSpatial(t2_pixels);
\* distances, indices = kdtree.query_nearest(t1_pixels, k=1)
MatchQuery ==
    /\ sd.pc = "match_call"
    /\ Len(sd.t1_pixels) # 0 /\ Len(sd.t2_pixels) # 0
    /\ \E indices \in QueryNearest(sd.t2_pixels, sd.t1_pixels) :
           sd' = [sd EXCEPT !.pc = "match_loop", !.indices = indices, !.i = 0]
    /\ UNCHANGED <<ufVars, cc, ip, vp, gp, rq>>

\* One pass of the loop over zip(distances, indices): (i, j) is appended
\* when dist <= max_distance.
MatchStep ==
    /\ sd.pc = "match_loop"
    /\ sd.i < Len(sd.t1_pixels)
    /\ LET j == sd.indices[sd.i + 1]
           dist2 == DistSq(sd.t1_pixels[sd.i + 1], sd.t2_pixels[j + 1])
       IN  sd' = [sd EXCEPT !.i = sd.i + 1,
                            !.matches = IF MatchAccepts(dist2, sd.max_distance)
                                        THEN Append(@, <<sd.i, j>>) ELSE @]
    /\ UNCHANGED <<ufVars, cc, ip, vp, gp, rq>>

\* return matches
MatchReturn ==
    /\ sd.pc = "match_loop"
    /\ sd.i = Len(sd.t1_pixels)
    /\ sd' = [sd EXCEPT !.pc = "match_done"]
    /\ UNCHANGED <<ufVars, cc, ip, vp, gp, rq>>

DetectorStart ==
    /\ parent = <<>> /\ rank = <<>> /\ size = <<>>
    /\ unioned = {} /\ ufCalls = 0
    /\ ufRet = [op |-> "init", x |-> 0, ret |-> 0]
    /\ ip = [pc |-> "unused"]
    /\ vp = [pc |-> "unused"]
    /\ gp = [pc |-> "unused"]
    /\ rq = [pc |-> "unused"]
    /\ \/ cc = [pc |-> "unused"] /\ (ConfidenceCall \/ FilterCall \/ MatchCall)
       \/ sd = [pc |-> "unused"] /\ ClusterCall

DetectorNext ==
    \/ ClusterEmpty
    \/ ClusterBuild
    \/ ClusterLoop
    \/ ClusterComponents
    \/ ClusterReturn
    \/ ConfidenceReturn
    \/ FilterStep
    \/ FilterReturn
    \/ MatchEmpty
    \/ MatchQuery
    \/ MatchStep
    \/ MatchReturn

SpecDetector == DetectorStart /\ [][DetectorNext]_vars

(***************************************************************************)
(* Claims on calculate_change_confidence and filter_false_positives        *)
(***************************************************************************)
\* C13: calculate_change_confidence returns a value in [0, 1] for every
\* cluster (empty, one point, more) and every reference set (empty or not),
\* and every confidence filter_false_positives pairs with a cluster lies in
\* [0.5, 1].
C13_ConfidenceInUnitRange ==
    /\ sd.pc = "conf_done" => sd.confidence \in 0 .. 100
    /\ sd.pc \in {"filter_loop", "filter_done"} =>
           /\ \A k \in 1 .. Len(sd.confidences) : sd.confidences[k] \in 0 .. 100
           /\ \A k \in 1 .. Len(sd.filtered) : sd.filtered[k][2] \in 50 .. 100

\* filter_false_positives has returned after scoring an empty cluster (0.0,
\* dropped) and the cluster of 100 points against a reference set (kept,
\* with a confidence of at least 0.9).
C13_Witness ==
    /\ sd.pc = "filter_done"
    /\ ~sd.reference_data.none /\ sd.reference_data.pixels # <<>>
    /\ Len(sd.clusters) = 2
    /\ sd.clusters[1] = <<>> /\ sd.confidences[1] = 0
    /\ Len(sd.filtered) = 1
    /\ sd.filtered[1][2] >= 90

(***************************************************************************)
(* detect_forest_loss: the shapes of its arrays.  A shape is the tuple     *)
(* numpy reports; arithmetic and logical operators on two arrays follow    *)
(* numpy broadcasting.                                                     *)
(***************************************************************************)
MaxSide == 3      \* largest height and width of an image

\* Shapes of the images handed in: [height, width] and [height, width, bands].
ImageShapes ==
    {<<h, w>> : h \in 1 .. MaxSide, w \in 1 .. MaxSide}
        \cup {<<h, w, b>> : h \in 1 .. MaxSide, w \in 1 .. MaxSide, b \in 1 .. 3}

\* image[:, :, 0] and image[:, :, 1] can be taken: three axes, the last of
\* size 2 or more; otherwise numpy raises IndexError.
BandsIndexable(shape) == Len(shape) = 3 /\ shape[3] >= 2

\* Two axis lengths numpy broadcasts together: equal, or one of them is 1.
AxisCompatible(a, b) == a = b \/ a = 1 \/ b = 1

\* Two 2-D shapes an operator accepts; otherwise it raises ValueError.
Broadcastable(s, t) == AxisCompatible(s[1], t[1]) /\ AxisCompatible(s[2], t[2])

Max(a, b) == IF a >= b THEN a ELSE b

\* The shape of the result on broadcastable shapes.
Broadcast(s, t) == <<Max(s[1], t[1]), Max(s[2], t[2])>>

ShapesStart ==
    /\ parent = <<>> /\ rank = <<>> /\ size = <<>>
    /\ unioned = {} /\ ufCalls = 0
    /\ ufRet = [op |-> "init", x |-> 0, ret |-> 0]
    /\ sd = [pc |-> "unused"]
    /\ gp = [pc |-> "unused"]
    /\ rq = [pc |-> "unused"]
    /\ cc = [pc |-> "unused"]
    /\ vp = [pc |-> "unused"]
    /\ \E before \in ImageShapes, after \in ImageShapes :
           ip = [pc |-> "sh_stage1", before_shape |-> before, after_shape |-> after,
                 ndvi_before_shape |-> <<>>, ndvi_after_shape |-> <<>>,
                 change_shape |-> <<>>, mask_shape |-> <<>>, error |-> "none"]

\* Stages 1 and 2: the four bands are sliced out, corrected and normalised,
\* and the indices computed, each snapshot on its own.
ShapeStage12 ==
    /\ ip.pc = "sh_stage1"
    /\ IF BandsIndexable(ip.before_shape) /\ BandsIndexable(ip.after_shape)
       THEN ip' = [ip EXCEPT !.pc = "sh_stage3",
                             !.ndvi_before_shape = <<ip.before_shape[1], ip.before_shape[2]>>,
                             !.ndvi_after_shape = <<ip.after_shape[1], ip.after_shape[2]>>]
       ELSE ip' = [ip EXCEPT !.pc = "sh_raised", !.error = "IndexError"]
    /\ UNCHANGED <<ufVars, cc, vp, sd, gp, rq>>

\* Stage 3: change = ndvi_before - ndvi_after in multi_temporal_filter (and
\* the same for EVI, of the same shapes).
ShapeStage3 ==
    /\ ip.pc = "sh_stage3"
    /\ IF Broadcastable(ip.ndvi_before_shape, ip.ndvi_after_shape)
       THEN ip' = [ip EXCEPT !.pc = "sh_stage4",
                             !.change_shape = Broadcast(ip.ndvi_before_shape,
                                                        ip.ndvi_after_shape)]
       ELSE ip' = [ip EXCEPT !.pc = "sh_raised", !.error = "ValueError"]
    /\ UNCHANGED <<ufVars, cc, vp, sd, gp, rq>>

\* Stage 4: forest_mask has the shape of ndvi_before, the loss masks that of
\* the change; forest_mask & (ndvi_loss | evi_loss).
ShapeStage4 ==
    /\ ip.pc = "sh_stage4"
    /\ IF Broadcastable(ip.ndvi_before_shape, ip.change_shape)
       THEN ip' = [ip EXCEPT !.pc = "sh_stage5",
                             !.mask_shape = Broadcast(ip.ndvi_before_shape,
                                                      ip.change_shape)]
       ELSE ip' = [ip EXCEPT !.pc = "sh_raised", !.error = "ValueError"]
    /\ UNCHANGED <<ufVars, cc, vp, sd, gp, rq>>

\* Stages 5 to 9 keep the shape of the mask; the dict is returned.
ShapeReturn ==
    /\ ip.pc = "sh_stage5"
    /\ ip' = [ip EXCEPT !.pc = "sh_done"]
    /\ UNCHANGED <<ufVars, cc, vp, sd, gp, rq>>

ShapesNext ==
    \/ ShapeStage12
    \/ ShapeStage3
    \/ ShapeStage4
    \/ ShapeReturn

SpecShapes == ShapesStart /\ [][ShapesNext]_vars

DegenerateBand(band, D) ==
    \/ \A p \in D : band[p] <= 0
    \/ \A p, q \in D : band[p] = band[q]

\* A normalised band with every value in [0, 1] (thousandths).
InUnitRange(band, D) == \A p \in D : band[p] # NaN /\ band[p] >= 0 /\ band[p] <= 1000

\* C15: for a band that is entirely zero, entirely non-positive or constant,
\* atmospheric_correction followed by normalize_band completes without
\* raising and yields an array with every value in [0, 1].
C15_DegenerateAbsorbed ==
    (/\ ip.pc \notin {"unused", "stage1"}
     /\ \/ DegenerateBand(ip.before_image.ch0, IpPix)
        \/ DegenerateBand(ip.before_image.ch1, IpPix)
        \/ DegenerateBand(ip.after_image.ch0, IpPix)
        \/ DegenerateBand(ip.after_image.ch1, IpPix))
    => /\ ip.pc # "raised"
       /\ InUnitRange(ip.before_nir, IpPix) /\ InUnitRange(ip.before_red, IpPix)
       /\ InUnitRange(ip.after_nir, IpPix) /\ InUnitRange(ip.after_red, IpPix)

(***************************************************************************)
(* Empty inputs to the SpatialChangeDetector methods                       *)
(***************************************************************************)
\* C16: empty inputs give empty outputs, not errors: cluster_changes on zero
\* points returns [], match_temporal_changes returns [] when either point
\* set is empty (the tree is never built or queried), filter_false_positives
\* on an empty list returns [], and calculate_change_confidence on an empty
\* cluster returns 0.0.
C16_EmptyInEmptyOut ==
    /\ (cc.pc # "unused" /\ cc.n = 0) =>
           cc.pc \in {"call", "done"} /\ cc.clusters = <<>>
    /\ (sd.pc \in {"match_call", "match_loop", "match_done"}
            /\ (sd.t1_pixels = <<>> \/ sd.t2_pixels = <<>>)) =>
           sd.pc \in {"match_call", "match_done"} /\ sd.matches = <<>>
    /\ (sd.pc \in {"filter_loop", "filter_done"} /\ sd.clusters = <<>>) =>
           sd.filtered = <<>>
    /\ (sd.pc = "conf_done" /\ sd.cluster_pixels = <<>>) => sd.confidence = 0
    /\ (sd.pc \in {"filter_loop", "filter_done"}) =>
           \A k \in 1 .. Len(sd.confidences) :
               sd.clusters[k] = <<>> => sd.confidences[k] = 0

\* calculate_change_confidence has returned 0.0 for an empty cluster scored
\* against a non-empty reference set.
C16_Witness ==
    /\ sd.pc = "conf_done"
    /\ sd.cluster_pixels = <<>>
    /\ sd.reference_pixels # <<>>
    /\ sd.confidence = 0

(***************************************************************************)
(* Claims on match_temporal_changes                                        *)
(***************************************************************************)
\* Point i (0-based) of the first set has a point of the second set within
\* max_distance.
HasMatch(i) ==
    NearestDistSq(sd.t2_pixels, sd.t1_pixels[i + 1]) <= sd.max_distance * sd.max_distance

\* C17: match_temporal_changes returns exactly the pairs (i, j) where i is an
\* index of the first set, j the index of a nearest neighbour of point i in
\* the second set, and their distance is <= max_distance (inclusive); each i
\* is in at most one pair and the pairs are in ascending order of i.
C17_MatchesAreNearestWithin ==
    (sd.pc = "match_done" /\ sd.t1_pixels # <<>> /\ sd.t2_pixels # <<>>) =>
        /\ \A k \in 1 .. Len(sd.matches) :
               LET i == sd.matches[k][1]
                   j == sd.matches[k][2]
               IN  /\ i \in Elems(Len(sd.t1_pixels))
                   /\ j \in Elems(Len(sd.t2_pixels))
                   /\ DistSq(sd.t1_pixels[i + 1], sd.t2_pixels[j + 1])
                          = NearestDistSq(sd.t2_pixels, sd.t1_pixels[i + 1])
                   /\ HasMatch(i)
        /\ \A i \in Elems(Len(sd.t1_pixels)) :
               HasMatch(i) => \E k \in 1 .. Len(sd.matches) : sd.matches[k][1] = i
        /\ \A k \in 1 .. (Len(sd.matches) - 1) : sd.matches[k][1] < sd.matches[k + 1][1]

\* Two first-set points, the first with no second-set point within
\* max_distance, the second exactly max_distance > 0 from its nearest one:
\* only the second is matched.
C17_Witness ==
    /\ sd.pc = "match_done"
    /\ Len(sd.t1_pixels) = 2 /\ Len(sd.t2_pixels) = 2
    /\ sd.max_distance > 0
    /\ ~HasMatch(0)
    /\ NearestDistSq(sd.t2_pixels, sd.t1_pixels[2]) = sd.max_distance * sd.max_distance
    /\ Len(sd.matches) = 1 /\ sd.matches[1][1] = 1

(***************************************************************************)
(* Claims on filter_false_positives                                        *)
(***************************************************************************)
\* The pairs (cluster, confidence) of the first k clusters whose confidence
\* is at least 0.5, in input order.
RECURSIVE ConfidentPairs(_)
ConfidentPairs(k) ==
    IF k = 0 THEN <<>>
    ELSE IF sd.confidences[k] >= 50
    THEN Append(ConfidentPairs(k - 1), <<sd.clusters[k], sd.confidences[k]>>)
    ELSE ConfidentPairs(k - 1)

\* C18: filter_false_positives returns, in input order, exactly the input
\* clusters whose confidence as returned by calculate_change_confidence is
\* >= 0.5, each paired with that confidence, and no cluster below 0.5.
C18_FilterKeepsConfident ==
    sd.pc = "filter_done" =>
        /\ Len(sd.confidences) = Len(sd.clusters)
        /\ \A k \in 1 .. Len(sd.clusters) :
               sd.confidences[k] \in
                   ChangeConfidence(sd.clusters[k],
                                    IF sd.reference_data.none THEN <<>>
                                    ELSE sd.reference_data.pixels,
                                    sd.neighbor_distance)
        /\ sd.filtered = ConfidentPairs(Len(sd.clusters))

\* Two clusters were scored, the first below 0.5 and dropped, the second
\* exactly 0.5 and kept.
C18_Witness ==
    /\ sd.pc = "filter_done"
    /\ Len(sd.clusters) = 2
    /\ sd.clusters[1] # <<>> /\ sd.confidences[1] < 50
    /\ sd.confidences[2] = 50
    /\ sd.filtered = << <<sd.clusters[2], 50>> >>

(***************************************************************************)
(* Aliasing between arguments and results                                  *)
(***************************************************************************)
\* C19: when filter_false_positives has returned, no array in the returned
\* structure is the same object as an array that was passed in.
C19_NoAliasing ==
    sd.pc = "filter_done" =>
        \A k \in 1 .. Len(sd.filtered_ids) :
            \A m \in 1 .. Len(sd.cluster_ids) : sd.filtered_ids[k] # sd.cluster_ids[m]

(***************************************************************************)
(* compute_ndvi and compute_evi on arbitrary arrays.  The arrays hold      *)
(* whole thousandths (unit "milli"), or whole multiples of 5e-9 (unit      *)
(* "tiny"), the scale at which the 1e-8 of the denominators is 2.          *)
(***************************************************************************)
\* x / 0 after clipping to [-1, 1]: 0 / 0 is nan, which np.clip keeps.
OverZero(num) == IF num > 0 THEN 1000 ELSE IF num < 0 THEN -1000 ELSE NaN

\* compute_ndvi on multiples of 5e-9, in thousandths.
ComputeNdviTiny(nir, red, D) ==
    [p \in D |-> LET denominator == nir[p] + red[p] + 2
                 IN  IF denominator = 0 THEN OverZero(nir[p] - red[p])
                     ELSE Clip(RoundDiv(1000 * (nir[p] - red[p]), denominator),
                               -1000, 1000)]

\* compute_evi on multiples of 5e-9, in thousandths.
ComputeEviTiny(nir, red, D) ==
    [p \in D |-> LET denominator == nir[p] + 6 * red[p] + 2
                 IN  IF denominator = 0 THEN OverZero(nir[p] - red[p])
                     ELSE Clip(RoundDiv(2500 * (nir[p] - red[p]), denominator),
                               -1000, 1000)]

\* The values of the input arrays, in either unit.
IndexValues == {-1000, -2, -1, 0, 1, 300, 2000}

IndexStart ==
    /\ parent = <<>> /\ rank = <<>> /\ size = <<>>
    /\ unioned = {} /\ ufCalls = 0
    /\ ufRet = [op |-> "init", x |-> 0, ret |-> 0]
    /\ sd = [pc |-> "unused"]
    /\ gp = [pc |-> "unused"]
    /\ rq = [pc |-> "unused"]
    /\ cc = [pc |-> "unused"]
    /\ vp = [pc |-> "unused"]
    /\ \E unit \in {"milli", "tiny"} :
       \E nir \in [Pix(1, 2) -> IndexValues], red \in [Pix(1, 2) -> IndexValues] :
           ip = [pc |-> "ix_call", unit |-> unit, nir |-> nir, red |-> red,
                 ndvi |-> <<>>, evi |-> <<>>]

\* compute_ndvi(nir, red) and compute_evi(nir, red) return.
IndexCompute ==
    /\ ip.pc = "ix_call"
    /\ ip' = [ip EXCEPT !.pc = "ix_done",
                        !.ndvi = IF ip.unit = "tiny"
                                 THEN ComputeNdviTiny(ip.nir, ip.red, Pix(1, 2))
                                 ELSE ComputeNdvi(ip.nir, ip.red, Pix(1, 2)),
                        !.evi = IF ip.unit = "tiny"
                                THEN ComputeEviTiny(ip.nir, ip.red, Pix(1, 2))
                                ELSE ComputeEvi(ip.nir, ip.red, Pix(1, 2))]
    /\ UNCHANGED <<ufVars, cc, vp, sd, gp, rq>>

IndexNext == IndexCompute

SpecIndex == IndexStart /\ [][IndexNext]_vars

\* C20: for all equally shaped NIR and Red arrays, all-zero and negative
\* values included, every element of compute_ndvi and of compute_evi lies
\* in [-1, 1].
C20_IndicesInRange ==
    ip.pc = "ix_done" =>
        \A p \in Pix(1, 2) :
            /\ ip.ndvi[p] # NaN /\ ip.ndvi[p] >= -1000 /\ ip.ndvi[p] <= 1000
            /\ ip.evi[p] # NaN /\ ip.evi[p] >= -1000 /\ ip.evi[p] <= 1000

(***************************************************************************)
(* detect_forest_loss: the order of the morphological steps                *)
(***************************************************************************)
\* The mask after the first k steps of the refinement, computed from the
\* mask stage 4 built.
AfterMedian == MedianFilter3(TrueSet(ip.deforestation_mask, IpPix), ip.H, ip.W)
AfterRemoveSmall ==
    IF AfterMedian = {} THEN {} ELSE RemoveSmallObjects(AfterMedian, MinPixels)
AfterClosing == BinaryClosing(AfterRemoveSmall, Disk(2), ip.H, ip.W)
AfterHoles == RemoveSmallHoles(AfterClosing, 100, ip.H, ip.W)
AfterOpening == BinaryOpening(AfterHoles, Disk(2), ip.H, ip.W)

InStage5 == ip.pc \in {"stage5", "stage5_2", "stage5_3", "stage5_4", "stage5_5"}

\* C21: the refinement runs median filter (3x3), removal of components under
\* the minimum pixel count, closing (disk 2), removal of holes (threshold
\* 100), opening (disk 2), in that order, each step on the mask the previous
\* one produced; the block runs once the mask of stage 4 is built and before
\* smoothing, edge refinement and vectorization.
C21_MorphologyOrder ==
    /\ ip.pc = "stage5_2" => TrueSet(ip.defor_mask, IpPix) = AfterMedian
    /\ ip.pc = "stage5_3" => TrueSet(ip.defor_mask, IpPix) = AfterRemoveSmall
    /\ ip.pc = "stage5_4" => TrueSet(ip.defor_mask, IpPix) = AfterClosing
    /\ ip.pc = "stage5_5" => TrueSet(ip.defor_mask, IpPix) = AfterHoles
    /\ PastStage5 => TrueSet(ip.defor_mask, IpPix) = AfterOpening
    /\ InStage5 =>
           /\ DOMAIN ip.deforestation_mask = IpPix
           /\ ip.smoothed = <<>> /\ ip.defor_mask_smooth = <<>>
           /\ ip.edges = <<>> /\ ip.final_mask = <<>>
           /\ ip.polygons = <<>> /\ vp.pc = "unused"
    /\ ip.pc \in {"stage3", "stage4"} => ip.defor_mask = <<>>
    /\ (PastStage5 /\ ip.pc # "stage6") =>
           ip.smoothed = Smoothed(TrueSet(ip.defor_mask, IpPix), ip.H, ip.W)

\* The call is past stage 5 on a raster where the median filter and the
\* opening each changed the mask they were given, and the refined mask is
\* not empty.
C21_Witness ==
    /\ PastStage5
    /\ AfterMedian # TrueSet(ip.deforestation_mask, IpPix)
    /\ AfterOpening # AfterHoles
    /\ AfterOpening # {}
    /\ TrueSet(ip.defor_mask, IpPix) = AfterOpening

(***************************************************************************)
(* UnionFind: the effect of one call                                       *)
(***************************************************************************)
\* The root of x: the element the parent chain of x ends at.
RECURSIVE RootOf(_, _)
RootOf(p, x) == IF p[x] = x THEN x ELSE RootOf(p, p[x])

\* The step is a call union(x, y).
IsUnionCall(x, y) ==
    /\ ufCalls' = ufCalls + 1
    /\ ufRet'.op = "union" /\ ufRet'.x = x
    /\ unioned' = unioned \cup {<<x, y>>}

\* What C22 says of a call union(x, y) on elements of different sets.
LinkedByRank(x, y) ==
    LET rx == RootOf(parent, x)
        ry == RootOf(parent, y)
    IN  rx # ry =>
            IF rank[rx] < rank[ry]
            THEN /\ parent'[rx] = ry /\ parent'[ry] = ry
                 /\ rank' = rank
                 /\ size' = [size EXCEPT ![ry] = size[rx] + size[ry]]
            ELSE IF rank[rx] > rank[ry]
            THEN /\ parent'[ry] = rx /\ parent'[rx] = rx
                 /\ rank' = rank
                 /\ size' = [size EXCEPT ![rx] = size[rx] + size[ry]]
            ELSE /\ parent'[ry] = rx /\ parent'[rx] = rx
                 /\ rank' = [rank EXCEPT ![rx] = rank[rx] + 1]
                 /\ size' = [size EXCEPT ![rx] = size[rx] + size[ry]]

\* C22: union(x, y) on elements of different sets puts the root of lower
\* rank under the root of higher rank with both ranks unchanged; on equal
\* ranks it puts the root of y under the root of x and adds 1 to the rank of
\* the root of x; the surviving root's size becomes the sum of the two root
\* sizes, and no other rank or size changes.
C22_UnionByRank ==
    [][\A x, y \in Elems(UFN) : IsUnionCall(x, y) => LinkedByRank(x, y)]_vars

\* union(2, y) has just put root 2, of rank 0, under root 0, of rank 1, and
\* the set of 0 has grown to three elements with the ranks left as they were.
C22_Witness ==
    /\ ufRet.op = "union" /\ ufRet.x = 2 /\ ufRet.ret = TRUE
    /\ parent[2] = 0 /\ parent[0] = 0
    /\ rank[0] = 1 /\ rank[2] = 0
    /\ size[0] = 3

\* The sets of the structure with parent array p, over its n elements.
PartitionOf(p, n) ==
    {{z \in Elems(n) : RootOf(p, z) = RootOf(p, w)} : w \in Elems(n)}

\* The roots of the structure with parent array p.
RootsOf(p, n) == {z \in Elems(n) : p[z] = z}

\* What C23 says of a call union(x, y).
UnionReturn(x, y) ==
    LET same == RootOf(parent, x) = RootOf(parent, y)
    IN  /\ ufRet'.ret \in BOOLEAN
        /\ (ufRet'.ret = FALSE) <=> same
        /\ same =>
               /\ PartitionOf(parent', UFN) = PartitionOf(parent, UFN)
               /\ rank' = rank
               /\ size' = size
        /\ ~same =>
               /\ ufRet'.ret = TRUE
               /\ Cardinality(PartitionOf(parent', UFN))
                      = Cardinality(PartitionOf(parent, UFN)) - 1
               /\ Cardinality(RootsOf(parent', UFN))
                      = Cardinality(RootsOf(parent, UFN)) - 1

\* C23: union(x, y) returns False exactly when x and y were in the same set
\* before the call, and then the partition, the rank array and the size
\* array are unchanged; otherwise it returns True and the number of disjoint
\* sets goes down by exactly one.
C23_UnionReturn ==
    [][\A x, y \in Elems(UFN) : IsUnionCall(x, y) => UnionReturn(x, y)]_vars

\* After two unions that returned True, a third union, of two distinct
\* elements of one set, has returned False; two sets are left out of four.
C23_Witness ==
    /\ ufRet.op = "union" /\ ufRet.ret = FALSE
    /\ ufCalls = 3
    /\ Cardinality(unioned) = 3
    /\ \A pr \in unioned : pr[1] # pr[2]
    /\ Cardinality(PartitionOf(parent, UFN)) = 2

(***************************************************************************)
(* UnionFind: union and find calls on one structure, without the history   *)
(* of the pairs, long enough for a path of two links to be compressed      *)
(***************************************************************************)
PathStart ==
    /\ parent = UFInit(UFN).parent
    /\ rank = UFInit(UFN).rank
    /\ size = UFInit(UFN).size
    /\ unioned = {}
    /\ ufCalls = 0
    /\ ufRet = [op |-> "init", x |-> 0, ret |-> 0]
    /\ sd = [pc |-> "unused"]
    /\ gp = [pc |-> "unused"]
    /\ rq = [pc |-> "unused"]
    /\ cc = [pc |-> "unused"]
    /\ ip = [pc |-> "unused"]
    /\ vp = [pc |-> "unused"]

\* uf.union(x, y)
PathUnion(x, y) ==
    /\ ufCalls < MaxPathCalls
    /\ LET r == UnionOp(TheUF, x, y)
       IN  /\ parent' = r.uf.parent
           /\ rank' = r.uf.rank
           /\ size' = r.uf.size
           /\ ufRet' = [op |-> "union", x |-> x, ret |-> r.ret]
    /\ ufCalls' = ufCalls + 1
    /\ UNCHANGED <<unioned, cc, ip, vp, sd, gp, rq>>

\* uf.find(x)
PathFind(x) ==
    /\ ufCalls < MaxPathCalls
    /\ LET f == FindRec(parent, x)
       IN  /\ parent' = f[1]
           /\ ufRet' = [op |-> "find", x |-> x, ret |-> f[2]]
    /\ ufCalls' = ufCalls + 1
    /\ UNCHANGED <<rank, size, unioned, cc, ip, vp, sd, gp, rq>>

\* uf.get_components()
PathComponents ==
    /\ ufCalls < MaxPathCalls
    /\ LET g == GetComponentsOp(TheUF, UFN)
       IN  /\ parent' = g.uf.parent
           /\ ufRet' = [op |-> "get_components", x |-> 0, ret |-> g.ret]
    /\ ufCalls' = ufCalls + 1
    /\ UNCHANGED <<rank, size, unioned, cc, ip, vp, sd, gp, rq>>

PathNext ==
    \/ \E x, y \in Elems(UFN) : PathUnion(x, y)
    \/ \E x \in Elems(UFN) : PathFind(x)
    \/ PathComponents

SpecPaths == PathStart /\ [][PathNext]_vars

\* The elements on the parent chain from x up to and including its root.
RECURSIVE PathOf(_, _)
PathOf(p, x) == IF p[x] = x THEN {x} ELSE {x} \cup PathOf(p, p[x])

\* The step is a call find(x).
IsFindCall(x) ==
    /\ ufCalls' = ufCalls + 1
    /\ ufRet'.op = "find" /\ ufRet'.x = x

\* What C24 says of a call find(x).
FindCompresses(x) ==
    LET r == RootOf(parent, x)
    IN  /\ ufRet'.ret = r
        /\ \A z \in PathOf(parent, x) : parent'[z] = r
        /\ PartitionOf(parent', UFN) = PartitionOf(parent, UFN)
        /\ RootsOf(parent', UFN) = RootsOf(parent, UFN)
        /\ rank' = rank
        /\ size' = size
        /\ FindRec(parent', x) = <<parent', r>>

\* C24: find(x) returns the root r of x; afterwards x and every element that
\* was on the path from x to r has r as its direct parent; the partition,
\* the set of roots, rank and size are as before the call; a second find(x)
\* returns the same r and changes nothing.
C24_FindCompresses ==
    [][\A x \in Elems(UFN) : IsFindCall(x) => FindCompresses(x)]_vars

\* find has just returned a root of rank 2 for an element that was two
\* links below it, and the element now hangs directly under that root.
C24_Witness ==
    /\ ufRet.op = "find" /\ ufRet.ret # ufRet.x
    /\ rank[ufRet.ret] = 2
    /\ rank[ufRet.x] = 0
    /\ \E m \in Elems(UFN) : rank[m] = 1 /\ size[m] = 2 /\ parent[m] = ufRet.ret
    /\ \A z \in Elems(UFN) : parent[z] = ufRet.ret
    /\ parent[ufRet.x] = ufRet.ret

\* The element reached from x by following k parent pointers.
RECURSIVE AncestorAt(_, _, _)
AncestorAt(p, x, k) == IF k = 0 THEN x ELSE AncestorAt(p, p[x], k - 1)

\* The parent chain of every element ends at a self-loop.
IsForest(p, n) == \A x \in Elems(n) : LET a == AncestorAt(p, x, n) IN p[a] = a

\* The number of links from x to the first self-loop on its chain, n if
\* there is none within n links.
DepthOf(p, x, n) ==
    LET ks == {k \in 0 .. n : LET a == AncestorAt(p, x, k) IN p[a] = a}
    IN  IF ks = {} THEN n ELSE CHOOSE k \in ks : \A j \in ks : k <= j

\* The frames of find(x): one for each element of the chain, the root included.
FindFrames(p, x, n) == DepthOf(p, x, n) + 1

RECURSIVE Pow2(_)
Pow2(k) == IF k = 0 THEN 1 ELSE 2 * Pow2(k - 1)

RECURSIVE FloorLog2(_)
FloorLog2(n) == IF n <= 1 THEN 0 ELSE 1 + FloorLog2(n \div 2)

\* C25: after any sequence of union and find calls the parent pointers form
\* a forest whose only cycles are the self-loops at the roots, every root r
\* has size[r] >= 2^rank[r], every element is at most rank[root] links below
\* its root, and so find never nests deeper than floor(log2(n)) + 1 frames.
C25_ForestOfLogDepth ==
    /\ IsForest(parent, UFN)
    /\ \A r \in RootsOf(parent, UFN) : size[r] >= Pow2(rank[r])
    /\ \A x \in Elems(UFN) :
           LET d == DepthOf(parent, x, UFN)
               r == AncestorAt(parent, x, d)
           IN  /\ d <= rank[r]
               /\ FindFrames(parent, x, UFN) <= FloorLog2(UFN) + 1

\* A root of rank 2 holds exactly 2^2 elements, one of them two links below
\* it, so that find on it nests floor(log2(4)) + 1 = 3 frames.
C25_Witness ==
    \E r \in RootsOf(parent, UFN) :
        /\ rank[r] = 2 /\ size[r] = 4
        /\ \E x \in Elems(UFN) :
               /\ DepthOf(parent, x, UFN) = 2
               /\ AncestorAt(parent, x, 2) = r
               /\ FindFrames(parent, x, UFN) = FloorLog2(UFN) + 1

\* The dictionary get_components would return in the current state.
ComponentsNow == GetComponentsOp(TheUF, UFN).ret

\* comps, a dictionary as the sequence of its items, is a partition of
\* 0 .. n-1 keyed by the roots of p, each list in ascending order.
IsRootedPartition(comps, p, n) ==
    /\ \A i \in Elems(n) :
           Cardinality({<<k, j>> \in (1 .. Len(comps)) \X (1 .. n) :
                           j <= Len(comps[k].indices) /\ comps[k].indices[j] = i}) = 1
    /\ \A k \in 1 .. Len(comps) :
           LET c == comps[k]
           IN  /\ p[c.root] = c.root
               /\ \A j \in 1 .. Len(c.indices) :
                      /\ c.indices[j] \in Elems(n)
                      /\ RootOf(p, c.indices[j]) = c.root
               /\ \E j \in 1 .. Len(c.indices) : c.indices[j] = c.root
               /\ \A j \in 1 .. (Len(c.indices) - 1) : c.indices[j] < c.indices[j + 1]
               /\ \A k2 \in 1 .. Len(comps) : comps[k2].root = c.root => k2 = k

\* A step changes the number of components by the number of unions that
\* return True in it.
CountFollowsUnions ==
    Len(GetComponentsOp([parent |-> parent', rank |-> rank', size |-> size'], UFN).ret) =
        Len(ComponentsNow) - (IF ufRet'.op = "union" /\ ufRet'.ret = TRUE THEN 1 ELSE 0)

\* C26: get_components returns a partition of 0..n-1: every index is in
\* exactly one list, each key is the current root of all members of its list
\* and a member itself, each list is in ascending order, and the number of
\* components is n minus the number of union calls that returned True (n
\* before any call, one less after each such union, the same after any
\* other call).
C26_ComponentsPartition ==
    /\ Len(ComponentsNow) = UFN
    /\ [](ufRet.op = "get_components" => IsRootedPartition(ufRet.ret, parent, UFN))
    /\ [][CountFollowsUnions]_vars

\* get_components has just returned two components after unions that left a
\* root with three elements, one of which was two links below it.
C26_Witness ==
    /\ ufRet.op = "get_components"
    /\ Len(ufRet.ret) = 2
    /\ \E k \in 1 .. 2 : Len(ufRet.ret[k].indices) = 3 /\ ufRet.ret[k].root # ufRet.ret[k].indices[1]

(***************************************************************************)
(* multi_temporal_filter on a scene whose median absolute deviation is 0   *)
(***************************************************************************)
\* The values more than half of the pixels of D have in f.
MajorityValues(f, D) ==
    {v \in {f[p] : p \in D} : 2 * Cardinality({p \in D : f[p] = v}) > Cardinality(D)}

\* What C27 says of the result r of one call of the filter.
ValidIffAtMedian(r, D) ==
    \A v \in MajorityValues(r.change, D) :
        /\ Median2(r.change, D) = 2 * v
        /\ Median2([p \in D |-> Abs(2 * r.change[p] - 2 * v)], D) = 0
        /\ \A p \in D : r.valid[p] <=> (r.change[p] = v)

\* C27: whenever more than half of the pixels share one change value, the
\* median is that value, the median absolute deviation is 0, and the
\* validity mask is true exactly at the pixels whose change equals the
\* median; a changed minority in an otherwise unchanged scene is marked
\* invalid as a whole.
C27_ZeroMadKeepsOnlyMedian ==
    ip.pc = "stage4" =>
        LET n == MultiTemporalFilter(ip.ndvi_before, ip.ndvi_after, IpPix)
            e == MultiTemporalFilter(ip.evi_before, ip.evi_after, IpPix)
        IN  /\ ValidIffAtMedian(n, IpPix)
            /\ ValidIffAtMedian(e, IpPix)
            /\ ip.ndvi_change = n.change
            /\ \A v \in MajorityValues(ip.ndvi_change, IpPix) :
                   \A p \in IpPix : ip.ndvi_change[p] # v => ~ip.valid_mask[p]

\* Stage 3 has run on the 10 x 10 raster whose 4 x 4 block lost 0.5 of NDVI
\* while the other 84 pixels did not change: the block is invalid, the rest
\* is valid.
C27_Witness ==
    /\ InBlockScenario
    /\ ip.pc = "stage4"
    /\ MajorityValues(ip.ndvi_change, IpPix) = {0}
    /\ \A p \in IpPix :
           IF InBlock(p, 3, 6)
           THEN ip.ndvi_change[p] = 500 /\ ~ip.valid_mask[p]
           ELSE ip.ndvi_change[p] = 0 /\ ip.valid_mask[p]

(***************************************************************************)
(* GEEPipeline._detect_local_smooth: fetch_raw_imagery, the hand-over to   *)
(* LocalImageProcessor.detect_forest_loss, and the GeoJSON conversion      *)
(***************************************************************************)
\* band_names, in the order of .select(band_names)
band_names == <<"B2", "B3", "B4", "B8", "B8A", "B11", "B12">>

\* The two 2 x 2 bands the small downloads are built from.
DownloadBands == {Band2x2(<<10, 20, 30, 40>>), Band2x2(<<40, 10, 20, 5>>)}

\* One downloaded image: the seven bands by name.
Download(b2, b3, b4, b8, rest) ==
    [B2 |-> b2, B3 |-> b3, B4 |-> b4, B8 |-> b8, B8A |-> rest, B11 |-> rest, B12 |-> rest]

\* The pairs (before, after) of 2 x 2 downloads: the later image either
\* equals the earlier one or has its NIR and Red bands exchanged.
SmallDownloads ==
    {[H |-> 2, W |-> 2,
      before |-> Download(b2, b3, b4, b8, Band2x2(<<5, 5, 5, 5>>)),
      after |-> IF same THEN Download(b2, b3, b4, b8, Band2x2(<<5, 5, 5, 5>>))
                ELSE Download(b2, b3, b8, b4, Band2x2(<<5, 5, 5, 5>>))] :
        b2 \in DownloadBands, b3 \in DownloadBands, b4 \in DownloadBands,
        b8 \in DownloadBands, same \in BOOLEAN}

\* Two 14 x 14 downloads: the forest scene in the B8 and B4 bands with flat
\* B2 and B3, and the forest scene in the B2 and B3 bands with flat B8 and B4.
FlatBand == [p \in Pix(14, 14) |-> 50]

SceneDownloads ==
    {[H |-> 14, W |-> 14,
      before |-> Download(FlatBand, FlatBand, SceneBefore.ch1, SceneBefore.ch0, FlatBand),
      after |-> Download(FlatBand, FlatBand, SceneAfter.ch1, SceneAfter.ch0, FlatBand)],
     [H |-> 14, W |-> 14,
      before |-> Download(SceneBefore.ch0, SceneBefore.ch1, FlatBand, FlatBand, FlatBand),
      after |-> Download(SceneAfter.ch0, SceneAfter.ch1, FlatBand, FlatBand, FlatBand)]}

\* The three forms the downloaded array is handled in: a structured array
\* with named fields, [7, h, w] and [h, w, 7].
Layouts == {"named", "bands_first", "bands_last"}

\* The band the code takes for position k (1-based) of its list blue, green,
\* red, nir, red_edge, swir1, swir2: by field name in a structured array, by
\* index k - 1 along the band axis otherwise.  The bands of the array are in
\* the order of band_names.
UnpackedBand(data, layout, k) ==
    IF layout = "named"
    THEN CASE k = 1 -> data.B2 [] k = 2 -> data.B3 [] k = 3 -> data.B4
           [] k = 4 -> data.B8 [] k = 5 -> data.B8A [] k = 6 -> data.B11
           [] OTHER -> data.B12
    ELSE data[band_names[k]]

\* np.stack([blue, green, red, nir, red_edge, swir1, swir2], axis=-1), as
\* the sequence of its seven channels.
Stacked(data, layout) == [k \in 1 .. 7 |-> UnpackedBand(data, layout, k)]

\* geo_transform = (min_lon, pixel_width, 0, max_lat, 0, -pixel_height)
FetchedGeoTransform == [none |-> FALSE, x0 |-> 10, dx |-> 1, y0 |-> 20, dy |-> -1]

LocalStart ==
    /\ parent = <<>> /\ rank = <<>> /\ size = <<>>
    /\ unioned = {} /\ ufCalls = 0
    /\ ufRet = [op |-> "init", x |-> 0, ret |-> 0]
    /\ sd = [pc |-> "unused"]
    /\ rq = [pc |-> "unused"]
    /\ cc = [pc |-> "unused"]
    /\ vp = [pc |-> "unused"]
    /\ ip = [pc |-> "unused"]
    /\ \E d \in SmallDownloads \cup SceneDownloads, layout \in Layouts :
           gp = [pc |-> "fetch", H |-> d.H, W |-> d.W,
                 before_data |-> d.before, after_data |-> d.after, layout |-> layout,
                 before_image |-> <<>>, after_image |-> <<>>,
                 geo_transform |-> NoGeoTransform,
                 result |-> <<>>, features |-> <<>>, stats |-> <<>>]

\* Step 1: before_image, after_image, geo_transform = fetch_raw_imagery(...)
FetchRawImagery ==
    /\ gp.pc = "fetch"
    /\ gp' = [gp EXCEPT !.pc = "fetched",
                        !.before_image = Stacked(gp.before_data, gp.layout),
                        !.after_image = Stacked(gp.after_data, gp.layout),
                        !.geo_transform = FetchedGeoTransform]
    /\ UNCHANGED <<ufVars, cc, ip, vp, sd, rq>>

\* Step 2, the call: local_processor.detect_forest_loss(before_image,
\* after_image, geo_transform), which reads before_image[:, :, 0] and
\* before_image[:, :, 1] (and the same of after_image).
LocalDetectCall ==
    /\ gp.pc = "fetched"
    /\ \E rule \in EmptyPercentileRules :
           ip' = RasterCall(gp.H, gp.W,
                            [ch0 |-> gp.before_image[1], ch1 |-> gp.before_image[2]],
                            [ch0 |-> gp.after_image[1], ch1 |-> gp.after_image[2]],
                            rule)
    /\ gp' = [gp EXCEPT !.pc = "detecting"]
    /\ UNCHANGED <<ufVars, cc, vp, sd, rq>>

\* Stage 8 of that call, with the geo_transform it was given.
LocalStage8Call ==
    /\ gp.pc = "detecting"
    /\ ip.pc = "stage8"
    /\ \E rule \in DrawRules :
           /\ ip' = [ip EXCEPT !.pc = "stage8_wait",
                               !.geo_transform = gp.geo_transform,
                               !.draw_rule = rule]
           /\ vp' = [pc |-> "call", H |-> ip.H, W |-> ip.W,
                     mask |-> TrueSet(ip.final_mask, IpPix),
                     geo_transform |-> gp.geo_transform, draw_rule |-> rule,
                     ndvi_change |-> ip.ndvi_change,
                     evi_change |-> ip.evi_change,
                     row |-> 0, contours |-> <<>>, i |-> 0, polygons |-> <<>>]
    /\ UNCHANGED <<ufVars, cc, sd, gp, rq>>

\* Step 2, an exception of detect_forest_loss: it is not caught here.
LocalDetectRaised ==
    /\ gp.pc = "detecting"
    /\ ip.pc = "raised"
    /\ gp' = [gp EXCEPT !.pc = "raised"]
    /\ ip' = [pc |-> "unused"]
    /\ UNCHANGED <<ufVars, cc, vp, sd, rq>>

\* Step 2, the return: result = {'polygons', 'mask', 'ndvi_diff',
\* 'total_area_ha', 'num_features'}.
LocalDetectReturn ==
    /\ gp.pc = "detecting"
    /\ ip.pc = "done"
    /\ gp' = [gp EXCEPT !.pc = "geojson",
                        !.result = [polygons |-> ip.polygons,
                                    mask |-> ip.final_mask,
                                    ndvi_diff |-> ip.ndvi_change,
                                    total_area_ha |-> ip.total_area_ha,
                                    num_features |-> ip.num_features]]
    /\ ip' = [pc |-> "unused"]
    /\ UNCHANGED <<ufVars, cc, vp, sd, rq>>

\* 'area_ha': polygon['properties'].get('area_pixels', 0) * 0.09 / 10000,
\* in millionths of a hectare.
FeatureAreaHa(area_pixels) == area_pixels * 9

\* round(total_pixels * 0.09 / 10000, 2), in hundredths of a hectare.
StatsTotalAreaHa(total_pixels) == RoundHalfEven(total_pixels * 9, 10000)

\* Step 3 and the stats: one feature per polygon, then total_area_ha,
\* pixel_count and feature_count; the dict is returned.  roi_area_ha and the
\* timestamps come from the service and the clock and are left out.
LocalFeatures ==
    /\ gp.pc = "geojson"
    /\ LET polygons == gp.result.polygons
           total_pixels == Cardinality(TrueSet(gp.result.mask, Pix(gp.H, gp.W)))
       IN  gp' = [gp EXCEPT
                     !.pc = "done",
                     !.features = [k \in 1 .. Len(polygons) |->
                                      [coordinates |-> polygons[k].coordinates,
                                       id |-> polygons[k].id,
                                       area_ha |-> FeatureAreaHa(polygons[k].area_pixels),
                                       confidence |-> polygons[k].confidence,
                                       method |-> "local_smooth"]],
                     !.stats = [total_area_ha |-> StatsTotalAreaHa(total_pixels),
                                pixel_count |-> total_pixels,
                                feature_count |-> Len(polygons)]]
    /\ UNCHANGED <<ufVars, cc, ip, vp, sd, rq>>

LocalNext ==
    \/ FetchRawImagery
    \/ LocalDetectCall
    \/ Stage1
    \/ Stage2
    \/ Stage3
    \/ Stage4
    \/ Stage5Median
    \/ Stage5RemoveSmall
    \/ Stage5Closing
    \/ Stage5Holes
    \/ Stage5Opening
    \/ Stage6
    \/ Stage7CannySmooth
    \/ Stage7CannySobel
    \/ Stage7CannyEdges
    \/ Stage7Combine
    \/ LocalStage8Call
    \/ VzFindContoursRow
    \/ VzContoursFound
    \/ VzContour
    \/ VzSortReturn
    \/ Stage8Return
    \/ Stage9
    \/ LocalDetectRaised
    \/ LocalDetectReturn
    \/ LocalFeatures

SpecLocal == LocalStart /\ [][LocalNext]_vars

\* C28: the two bands detect_forest_loss reads as NIR (band index 0) and Red
\* (band index 1) are, in the arrays fetch_raw_imagery built and
\* _detect_local_smooth handed over unchanged, the Sentinel-2 bands B8 and B4.
C28_LocalReadsNirAndRed ==
    (gp.pc = "detecting" /\ ip.pc # "unused") =>
        /\ ip.before_image.ch0 = gp.before_data.B8
        /\ ip.before_image.ch1 = gp.before_data.B4
        /\ ip.after_image.ch0 = gp.after_data.B8
        /\ ip.after_image.ch1 = gp.after_data.B4

\* C29: every feature's area_ha equals the hectare area of its polygon
\* record, area_pixels x 30^2 / 10000 (here in millionths of a hectare, and
\* within one pixel and half a thousandth of the record's rounded area_ha),
\* and the stats total_area_ha equals the number of true pixels of the final
\* mask x 30^2 / 10000 (here in hundredths), the value detect_forest_loss
\* reports as total_area_ha.
C29_AreasAgree ==
    gp.pc = "done" =>
        /\ \A k \in 1 .. Len(gp.features) :
               LET record == gp.result.polygons[k]
               IN  /\ gp.features[k].area_ha = record.area_pixels * 90000
                   /\ Abs(gp.features[k].area_ha - 1000 * record.area_ha) <= 90500
        /\ gp.stats.total_area_ha
               = Cardinality(TrueSet(gp.result.mask, Pix(gp.H, gp.W))) * 9
        /\ gp.stats.total_area_ha = gp.result.total_area_ha

(***************************************************************************)
(* GET /forest-loss (routes/forest_loss.py): the handler get_forest_loss   *)
(* and the response the framework builds from what it returns or raises    *)
(***************************************************************************)
\* What get_gee_pipeline() and get_bq_handler() give: None, a service that
\* answers, or a service whose call raises.
Services == {"none", "answers", "raises"}

Methods == {"hansen", "ndvi", "local_smooth", "combination"}

\* region: absent, a name, "lon,lat;lon,lat" or text with a comma that does
\* not parse.
Regions == {"absent", "name", "pairs", "malformed"}

\* str(e) of an HTTPException depends on the installed framework: the
\* status and the detail, or the empty string.
StrRules == {"status_and_detail", "empty"}

\* raise HTTPException(status_code=..., detail=...)
HTTPException(status_code, detail) ==
    [type |-> "HTTPException", status_code |-> status_code, detail |-> detail]

\* An exception of a service call.
ServiceError == [type |-> "Exception", status_code |-> 0, detail |-> <<"service call failed">>]

\* str(e)
StrOf(e, rule) ==
    IF e.type = "HTTPException"
    THEN IF rule = "status_and_detail" THEN <<e.status_code>> \o e.detail ELSE <<>>
    ELSE e.detail

NoException == [type |-> "none", status_code |-> 0, detail |-> <<>>]

NoResponse == [status_code |-> 0, detail |-> <<>>, source |-> "", method |-> ""]

RequestStart ==
    /\ parent = <<>> /\ rank = <<>> /\ size = <<>>
    /\ unioned = {} /\ ufCalls = 0
    /\ ufRet = [op |-> "init", x |-> 0, ret |-> 0]
    /\ sd = [pc |-> "unused"]
    /\ gp = [pc |-> "unused"]
    /\ cc = [pc |-> "unused"]
    /\ vp = [pc |-> "unused"]
    /\ ip = [pc |-> "unused"]
    /\ \E use_bigquery \in BOOLEAN, use_local_processing \in BOOLEAN, use_fusion \in BOOLEAN,
          method \in Methods, region \in Regions, lat_lon \in BOOLEAN, radius \in {0, 10000},
          gee \in Services, bq \in Services, rule \in StrRules :
           rq = [pc |-> "try",
                 use_bigquery |-> use_bigquery,
                 use_local_processing |-> use_local_processing,
                 use_fusion |-> use_fusion,
                 method |-> method, region |-> region,
                 lat_lon |-> lat_lon, radius |-> radius,
                 gee_pipeline |-> gee, bq_handler |-> bq, str_rule |-> rule,
                 coords |-> "None", flags |-> <<>>,
                 exception |-> NoException, response |-> NoResponse]

\* The use_bigquery branch of the try block.
RqBigQuery ==
    /\ rq.pc = "try"
    /\ rq.use_bigquery
    /\ rq' = IF rq.bq_handler = "none"
             THEN [rq EXCEPT !.pc = "raised_in_try",
                             !.exception = HTTPException(503, <<"BigQuery not available">>)]
             ELSE IF rq.bq_handler = "raises"
             THEN [rq EXCEPT !.pc = "raised_in_try", !.exception = ServiceError]
             ELSE [rq EXCEPT !.pc = "returned",
                             !.response = [status_code |-> 200, detail |-> <<>>,
                                           source |-> "bigquery", method |-> ""]]
    /\ UNCHANGED <<ufVars, cc, ip, vp, sd, gp>>

\* coords: the box around (lat, lon), the parsed pairs, or None.
ParsedCoords(lat_lon, radius, region) ==
    IF lat_lon /\ radius # 0 THEN "box"
    ELSE IF region = "pairs" THEN "pairs"
    ELSE "None"

\* <<use_hansen, use_local_processing, use_fusion>> as passed to
\* gee_pipeline.detect_forest_loss.
DetectFlags(method, use_local_processing, use_fusion) ==
    IF method = "combination" \/ use_fusion THEN <<FALSE, FALSE, TRUE>>
    ELSE IF method = "local_smooth" \/ use_local_processing THEN <<FALSE, TRUE, FALSE>>
    ELSE <<method = "hansen", FALSE, FALSE>>

\* The live branch of the try block.
RqLive ==
    /\ rq.pc = "try"
    /\ ~rq.use_bigquery
    /\ LET coords == ParsedCoords(rq.lat_lon, rq.radius, rq.region)
           flags == DetectFlags(rq.method, rq.use_local_processing, rq.use_fusion)
       IN  rq' = IF rq.gee_pipeline = "none"
                 THEN [rq EXCEPT !.pc = "raised_in_try",
                                 !.exception = HTTPException(503, <<"GEE not available">>)]
                 ELSE IF rq.gee_pipeline = "raises"
                 THEN [rq EXCEPT !.pc = "raised_in_try", !.coords = coords, !.flags = flags,
                                 !.exception = ServiceError]
                 ELSE [rq EXCEPT !.pc = "returned", !.coords = coords, !.flags = flags,
                                 !.response = [status_code |-> 200, detail |-> <<>>,
                                               source |-> "gee",
                                               method |-> "result.method"]]
    /\ UNCHANGED <<ufVars, cc, ip, vp, sd, gp>>

\* except Exception as e: raise HTTPException(status_code=500, detail=str(e)).
\* HTTPException is a subclass of Exception, so the clause catches it too.
RqExcept ==
    /\ rq.pc = "raised_in_try"
    /\ rq' = [rq EXCEPT !.pc = "raised",
                        !.exception = HTTPException(500, StrOf(rq.exception, rq.str_rule))]
    /\ UNCHANGED <<ufVars, cc, ip, vp, sd, gp>>

\* The framework answers with the status and detail of the HTTPException
\* that left the handler.
RqRespondError ==
    /\ rq.pc = "raised"
    /\ rq' = [rq EXCEPT !.pc = "responded",
                        !.response = [status_code |-> rq.exception.status_code,
                                      detail |-> rq.exception.detail,
                                      source |-> "", method |-> ""]]
    /\ UNCHANGED <<ufVars, cc, ip, vp, sd, gp>>

\* The framework answers 200 with the dict the handler returned.
RqRespondOk ==
    /\ rq.pc = "returned"
    /\ rq' = [rq EXCEPT !.pc = "responded"]
    /\ UNCHANGED <<ufVars, cc, ip, vp, sd, gp>>

RequestNext ==
    \/ RqBigQuery
    \/ RqLive
    \/ RqExcept
    \/ RqRespondError
    \/ RqRespondOk

SpecRequest == RequestStart /\ [][RequestNext]_vars

\* The service the request needs is not there.
ServiceUnavailable ==
    \/ rq.use_bigquery /\ rq.bq_handler = "none"
    \/ ~rq.use_bigquery /\ rq.gee_pipeline = "none"

\* C30: when the required service is unavailable (get_gee_pipeline() is None
\* for a live request, or get_bq_handler() is None with use_bigquery), the
\* response has status 503 and the 'not available' detail: the
\* HTTPException(503) raised in the handler is not turned into a 500.
C30_UnavailableGives503 ==
    (rq.pc = "responded" /\ ServiceUnavailable) =>
        /\ rq.response.status_code = 503
        /\ rq.response.detail = IF rq.use_bigquery THEN <<"BigQuery not available">>
                                ELSE <<"GEE not available">>

====
